---- MODULE Spec2Model ----
(***************************************************************************)
(* Address directory of lib/api/addresses.js: the `addresses` and `users`  *)
(* collections and the request handlers that create, promote, update,      *)
(* delete and resolve addresses.  Every handler is split at its store      *)
(* calls: one action per store call together with the callback it runs.    *)
(* Strings are sequences of one-character strings, so that indexOf,        *)
(* substr and replace are computed as the code computes them.              *)
(***************************************************************************)
EXTENDS Integers, Sequences, FiniteSets, TLC

(***************************************************************************)
(* Bounds of the model.                                                    *)
(***************************************************************************)
\* Number of ObjectIDs the store hands out to address records.
MaxIds == 2

(***************************************************************************)
(* JavaScript string primitives.                                           *)
(***************************************************************************)
None == <<>>
Some(v) == <<v>>

Min(a, b) == IF a < b THEN a ELSE b
Max(a, b) == IF a > b THEN a ELSE b

\* String.prototype.indexOf: 0-based position of the first c, -1 if none.
IndexOf(s, c) ==
    IF \E i \in 1..Len(s) : s[i] = c
    THEN (CHOOSE i \in 1..Len(s) : s[i] = c /\ \A j \in 1..(i - 1) : s[j] # c) - 1
    ELSE -1

\* String.prototype.lastIndexOf.
LastIndexOf(s, c) ==
    IF \E i \in 1..Len(s) : s[i] = c
    THEN (CHOOSE i \in 1..Len(s) : s[i] = c /\ \A j \in (i + 1)..Len(s) : s[j] # c) - 1
    ELSE -1

\* s.substr(0, n): a length below zero gives the empty string.
SubstrTo(s, n) == IF n <= 0 THEN <<>> ELSE SubSeq(s, 1, Min(n, Len(s)))

\* s.substr(i): a negative start counts from the end of the string.
SubstrFrom(s, i) ==
    IF i < 0 THEN SubSeq(s, Max(Len(s) + i, 0) + 1, Len(s))
    ELSE SubSeq(s, i + 1, Len(s))

\* s.replace(/\./g, '')
IsNotDot(c) == c # "."
RemoveDots(s) == SelectSeq(s, IsNotDot)

\* A variant that folds nothing (the stored key keeps the dots).
AddrViewKeepDots(address) == address

\* A variant that folds the dots of the whole string, domain included.
AddrViewFoldAll(address) == RemoveDots(address)

\* address.substr(0, address.indexOf('@')).replace(/\./g, '') + address.substr(address.indexOf('@'))
AddrView(address) ==
    RemoveDots(SubstrTo(address, IndexOf(address, "@")))
        \o SubstrFrom(address, IndexOf(address, "@"))

\* Character classes of the request schemas.
Letters == {"a", "b", "c", "x", "y", "h", "s", "m", "t", "p", "A"}
WordChars == Letters \cup {"_"}
\* isemail's atext: printable characters allowed unquoted in a local part.
AText == Letters \cup {"*", "+", "_"}

ToLower(c) == IF c = "A" THEN "a" ELSE c

\* tools.normalizeAddress: case folding of the address (lib/tools.js).
NormalizeAddress(a) == [i \in 1..Len(a) |-> ToLower(a[i])]

CountOf(s, c) == Cardinality({i \in 1..Len(s) : s[i] = c})

\* Joi.string().email(): one '@', a dot-atom local part, a dotted host name.
JoiEmail(a) ==
    /\ CountOf(a, "@") = 1
    /\ LET at == IndexOf(a, "@")
           local == SubstrTo(a, at)
           domain == SubstrFrom(a, at + 1)
           DotAtom(p, ok) ==
               /\ Len(p) > 0
               /\ p[1] # "." /\ p[Len(p)] # "."
               /\ \A i \in 1..Len(p) : p[i] \in ok \cup {"."}
               /\ \A i \in 1..(Len(p) - 1) : ~(p[i] = "." /\ p[i + 1] = ".")
       IN  DotAtom(local, AText) /\ DotAtom(domain, Letters)

\* Joi.string().regex(/^\w+@\*$/, 'special address')
JoiSpecialAddress(a) ==
    /\ Len(a) >= 3
    /\ a[Len(a)] = "*" /\ a[Len(a) - 1] = "@"
    /\ \A i \in 1..(Len(a) - 2) : a[i] \in WordChars

\* The `address` key of the create schemas: either alternative validates.
JoiAddress(a) == JoiEmail(a) \/ JoiSpecialAddress(a)

\* String(result.value): an object converts to "[object Object]".
ObjectToString ==
    <<"[", "o", "b", "j", "e", "c", "t", " ", "O", "b", "j", "e", "c", "t", "]">>

\* /[^@]\*|\*[^@]/.test(str)
WildcardRegexTest(str) ==
    \E i \in 1..(Len(str) - 1) :
        \/ str[i] # "@" /\ str[i + 1] = "*"
        \/ str[i] = "*" /\ str[i + 1] # "@"

(***************************************************************************)
(* Documents of the store.  An optional field is None or Some(value).      *)
(***************************************************************************)
Users == {"u1", "u2"}
\* "u0" is a well-formed user id with no document in the users collection.
UserParams == Users \cup {"u0"}

\* {enabled: false}
AutoreplyDisabled ==
    [enabled |-> Some(FALSE), start |-> None, end |-> None,
     subject |-> None, text |-> None, html |-> None]

\* The document written by insertOne in POST /users/:user/addresses.
UserAddressDoc(id, user, address) ==
    [id |-> id, user |-> Some(user), address |-> address,
     addrview |-> AddrView(address),
     targets |-> None, forwards |-> None, autoreply |-> None, created |-> id]

\* The document written by insertOne in POST /addresses/forwarded.
ForwardedAddressDoc(id, address, targets, forwards, autoreply) ==
    [id |-> id, user |-> None, address |-> address,
     addrview |-> AddrView(address),
     targets |-> Some(targets), forwards |-> Some(forwards),
     autoreply |-> Some(autoreply), created |-> id]

(***************************************************************************)
(* State.                                                                  *)
(***************************************************************************)
VARIABLES
    addresses,  \* the `addresses` collection: a set of documents
    users,      \* the `users` collection: user id -> its `address` field
    nextId,     \* number of ObjectIDs handed out to address documents
    req         \* per request slot: parameters, position, locals, response

vars == <<addresses, users, nextId, req>>

Slots == {1, 2}

\* res.json(...): `error` is the message, `code` the error code.
NoBody ==
    [address |-> <<>>, user |-> None, targets |-> None, allowed |-> 0,
     used |-> 0, ttl |-> None, autoreply |-> None, created |-> 0,
     main |-> FALSE]
NoRes ==
    [sent |-> FALSE, error |-> "", code |-> "", success |-> FALSE, id |-> 0,
     body |-> NoBody, results |-> <<>>]
ErrorRes(error, code) ==
    [NoRes EXCEPT !.sent = TRUE, !.error = error, !.code = code]
SuccessRes(success, id) ==
    [NoRes EXCEPT !.sent = TRUE, !.success = success, !.id = id]

NoParams ==
    [user |-> "u0", address |-> <<>>, id |-> 0, main |-> FALSE,
     allowWildcard |-> FALSE, targets |-> None, forwards |-> None,
     autoreply |-> None]

\* A request slot with nothing in flight.
IdleReq ==
    [op |-> "none", pc |-> "idle", p |-> NoParams, address |-> <<>>,
     userAddress |-> None, addressData |-> None, targets |-> None,
     cached |-> <<>>, addrlist |-> <<>>, insertId |-> 0, updates |-> None,
     tracker |-> None, wrote |-> FALSE, from |-> "", res |-> NoRes]

NewReq(op, p) == [IdleReq EXCEPT !.op = op, !.p = p, !.pc = "start"]

\* The handler has answered: res.json(res); return next();
Respond(r, res) ==
    [IdleReq EXCEPT !.op = r.op, !.p = r.p, !.pc = "done",
                    !.wrote = r.wrote, !.from = r.pc, !.res = res]

\* An exception thrown out of the handler or a callback: no res.json call.
Throw(r) ==
    [IdleReq EXCEPT !.op = r.op, !.p = r.p, !.pc = "thrown",
                    !.wrote = r.wrote, !.from = r.pc]

Set(s, r) == req' = [req EXCEPT ![s] = r]

\* The store failed: {error: 'MongoDB Error: ' + err.message, code}.
DbError == ErrorRes("MongoDB Error", "InternalDatabaseError")
\* The same answer when err is the duplicate-key error of a unique index.
DuplicateKeyError ==
    ErrorRes("MongoDB Error: E11000 duplicate key", "InternalDatabaseError")

Free(s) == req[s].pc = "idle"

\* next(): the request is over and its slot takes the next one.
Finish(s) ==
    /\ req[s].pc \in {"done", "thrown"}
    /\ req' = [req EXCEPT ![s] = IdleReq]
    /\ UNCHANGED <<addresses, users, nextId>>

\* A variant that queries the address field instead of addrview.
FindByAddress(av) == {r \in addresses : r.address = av}

\* collection('addresses').findOne({addrview}) and findOne({_id})
FindByAddrview(av) == {r \in addresses : r.addrview = av}
FindById(id) == {r \in addresses : r.id = id}

Init ==
    /\ addresses = {}
    /\ users = [u \in Users |-> None]
    /\ nextId = 0
    /\ req = [s \in Slots |-> IdleReq]


(***************************************************************************)
(* The store's insertOne on `addresses`.  The collection carries a unique  *)
(* index on addrview: an insert whose addrview is already stored fails     *)
(* with a duplicate-key error and stores nothing.                          *)
(***************************************************************************)
InsertUnique(doc) ==
    IF \E a \in addresses : a.addrview = doc.addrview THEN "duplicate" ELSE "inserted"

\* address.indexOf('+') >= 0, the first test of both create handlers.
PlusOnlyInDomain(address) == LastIndexOf(address, "+") > IndexOf(address, "@")
ContainsPlus(address) == IndexOf(address, "+") >= 0

(***************************************************************************)
(* POST /users/:user/addresses  (createUserAddress)                        *)
(***************************************************************************)
\* A variant that never looks at allowWildcard.
UserWildcardErrorNoFlag(address, allowWildcard, main) ==
    LET wcpos == IndexOf(address, "*") IN
    IF wcpos < 0 THEN ""
    ELSE IF WildcardRegexTest(ObjectToString) \/ wcpos # LastIndexOf(address, "*")
         THEN "Invalid wildcard address, use \"*@domain\" or \"user@*\""
    ELSE IF main THEN "Main address can not contain *"
    ELSE ""

\* The wildcard checks of the handler; "" when the address passes.
UserWildcardError(address, allowWildcard, main) ==
    LET wcpos == IndexOf(address, "*") IN
    IF wcpos < 0 THEN ""
    ELSE IF ~allowWildcard THEN "Address can not contain *"
    ELSE IF WildcardRegexTest(ObjectToString) \/ wcpos # LastIndexOf(address, "*")
         THEN "Invalid wildcard address, use \"*@domain\" or \"user@*\""
    ELSE IF main THEN "Main address can not contain *"
    ELSE ""

\* The handler up to its first store call.
CreateUserStart(s, user, rawAddress, main, allowWildcard) ==
    /\ Free(s)
    /\ LET p == [NoParams EXCEPT !.user = user, !.address = rawAddress,
                                 !.main = main, !.allowWildcard = allowWildcard]
           r == NewReq("createUserAddress", p)
           address == NormalizeAddress(rawAddress)
       IN  IF ~JoiAddress(rawAddress)
           THEN Set(s, Respond(r, ErrorRes("invalid", "InputValidationError")))
           ELSE IF ContainsPlus(address)
           THEN Set(s, Respond(r, ErrorRes("Address can not contain +", "")))
           ELSE IF UserWildcardError(address, allowWildcard, main) # ""
           THEN Set(s, Respond(r, ErrorRes(UserWildcardError(address, allowWildcard, main), "")))
           ELSE Set(s, [r EXCEPT !.pc = "cu_findUser", !.address = address])
    /\ UNCHANGED <<addresses, users, nextId>>

\* users.findOne({_id: user}) and its callback.
CreateUserFindUser(s) ==
    /\ req[s].pc = "cu_findUser"
    /\ \E err \in BOOLEAN :
        LET r == req[s] IN
        IF err THEN Set(s, Respond(r, DbError))
        ELSE IF r.p.user \notin Users
        THEN Set(s, Respond(r, ErrorRes("This user does not exist", "UserNotFound")))
        ELSE Set(s, [r EXCEPT !.pc = "cu_findAddress", !.userAddress = users[r.p.user]])
    /\ UNCHANGED <<addresses, users, nextId>>

\* addresses.findOne({addrview}) and its callback: the pre-check.
CreateUserFindAddress(s) ==
    /\ req[s].pc = "cu_findAddress"
    /\ \E err \in BOOLEAN :
        LET r == req[s] IN
        IF err THEN Set(s, Respond(r, DbError))
        ELSE IF FindByAddrview(AddrView(r.address)) # {}
        THEN Set(s, Respond(r, ErrorRes("This email address already exists", "AddressExists")))
        ELSE Set(s, [r EXCEPT !.pc = "cu_insert"])
    /\ UNCHANGED <<addresses, users, nextId>>

\* A variant that promotes every new address.
AlwaysSetsDefault(userAddress, main) == TRUE

\* !userData.address || main: the new address becomes the default.
SetsDefault(userAddress, main) ==
    userAddress = None \/ userAddress = Some(<<>>) \/ main

\* addresses.insertOne({user, address, addrview, created}) and its callback.
CreateUserInsert(s) ==
    /\ req[s].pc = "cu_insert"
    /\ \E err \in BOOLEAN :
        LET r == req[s]
            doc == UserAddressDoc(nextId + 1, r.p.user, r.address)
        IN  IF err \/ InsertUnique(doc) = "duplicate"
            THEN /\ Set(s, Respond(r, IF err THEN DbError ELSE DuplicateKeyError))
                 /\ UNCHANGED <<addresses, nextId>>
            ELSE /\ nextId < MaxIds
                 /\ addresses' = addresses \cup {doc}
                 /\ nextId' = nextId + 1
                 /\ IF SetsDefault(r.userAddress, r.p.main)
                    THEN Set(s, [r EXCEPT !.pc = "cu_setDefault", !.wrote = TRUE,
                                          !.insertId = doc.id])
                    ELSE Set(s, Respond([r EXCEPT !.wrote = TRUE],
                                        SuccessRes(TRUE, doc.id)))
    /\ UNCHANGED users

\* A variant that undoes the insert and reports the error when the update
\* of the user document fails.
CreateUserSetDefaultRollback(s) ==
    /\ req[s].pc = "cu_setDefault"
    /\ \E err \in BOOLEAN :
        LET r == req[s] IN
        IF err
        THEN /\ addresses' = addresses \ FindById(r.insertId)
             /\ Set(s, Respond(r, DbError))
             /\ UNCHANGED users
        ELSE /\ users' = [users EXCEPT ![r.p.user] = Some(r.address)]
             /\ Set(s, Respond(r, SuccessRes(TRUE, r.insertId)))
             /\ UNCHANGED addresses
    /\ UNCHANGED nextId

\* users.findOneAndUpdate({_id: user}, {$set: {address}}) and done(): the
\* outcome of the update is ignored.
CreateUserSetDefault(s) ==
    /\ req[s].pc = "cu_setDefault"
    /\ \E err \in BOOLEAN :
        LET r == req[s] IN
        /\ IF err \/ r.p.user \notin Users
           THEN UNCHANGED users
           ELSE users' = [users EXCEPT ![r.p.user] = Some(r.address)]
        /\ Set(s, Respond(r, SuccessRes(TRUE, r.insertId)))
    /\ UNCHANGED <<addresses, nextId>>

(***************************************************************************)
(* Forwarding targets and autoreply, shared by the create and update       *)
(* handlers of forwarded addresses (the code repeats them verbatim).       *)
(***************************************************************************)
StartsWith(str, prefix) ==
    /\ Len(str) >= Len(prefix)
    /\ \A i \in 1..Len(prefix) : str[i] = prefix[i]

StartsWithNoCase(str, prefix) ==
    /\ Len(str) >= Len(prefix)
    /\ \A i \in 1..Len(prefix) : ToLower(str[i]) = prefix[i]

\* /^smtps?:/i.test(target)
IsSmtp(target) ==
    \/ StartsWithNoCase(target, <<"s", "m", "t", "p", ":">>)
    \/ StartsWithNoCase(target, <<"s", "m", "t", "p", "s", ":">>)

\* /^https?:/i.test(target)
IsHttp(target) ==
    \/ StartsWithNoCase(target, <<"h", "t", "t", "p", ":">>)
    \/ StartsWithNoCase(target, <<"h", "t", "t", "p", "s", ":">>)

\* Joi.string().uri({scheme: [/smtps?/, /https?/]}): scheme, ':' and a
\* non-empty rest.
JoiUri(t) ==
    \E scheme \in {<<"s", "m", "t", "p", ":">>, <<"s", "m", "t", "p", "s", ":">>,
                   <<"h", "t", "t", "p", ":">>, <<"h", "t", "t", "p", "s", ":">>} :
        StartsWith(t, scheme) /\ Len(t) > Len(scheme)

\* A variant of the schema without min(1).
JoiTargetsNoMin(targets) ==
    \/ targets = None
    \/ \A i \in 1..Len(targets[1]) : JoiEmail(targets[1][i]) \/ JoiUri(targets[1][i])

\* targets: Joi.array().items(email, uri).min(1), not required.
JoiTargets(targets) ==
    \/ targets = None
    \/ /\ Len(targets[1]) >= 1
       /\ \A i \in 1..Len(targets[1]) : JoiEmail(targets[1][i]) \/ JoiUri(targets[1][i])

\* A variant of the loop that tests for '@' before the schemes.
TargetTypeMailFirst(target) ==
    IF IndexOf(target, "@") >= 0 THEN "mail"
    ELSE IF IsSmtp(target) THEN "relay"
    ELSE IF IsHttp(target) THEN "http"
    ELSE "unknown"

\* The branch of the classification loop a target takes.
TargetType(target) ==
    IF ~IsSmtp(target) /\ ~IsHttp(target) /\ IndexOf(target, "@") >= 0 THEN "mail"
    ELSE IF IsSmtp(target) THEN "relay"
    ELSE IF IsHttp(target) THEN "http"
    ELSE "unknown"

\* A variant of the self-forward test that compares the strings unfolded.
TargetAddrvUnfolded(target) == NormalizeAddress(target)

\* addrv of a mail target.
TargetAddrv(target) == AddrView(NormalizeAddress(target))

\* "" when the loop accepts the target, else the error it answers with.
TargetError(target, addrview) ==
    IF TargetType(target) = "mail" /\ TargetAddrv(target) = addrview
    THEN "Can not forward to self"
    ELSE IF TargetType(target) = "unknown" THEN "Unknown target type"
    ELSE ""

\* The loop over targets: the first failing target answers and returns.
ClassifyError(targets, addrview) ==
    LET bad == {i \in 1..Len(targets) : TargetError(targets[i], addrview) # ""} IN
    IF bad = {} THEN ""
    ELSE TargetError(targets[CHOOSE i \in bad : \A j \in bad : i <= j], addrview)

\* targets[i] = {id: new ObjectID(), type, value: target}; the id is the
\* position of the target in its list.
ClassifyTargets(targets) ==
    [i \in 1..Len(targets) |->
        [id |-> i, type |-> TargetType(targets[i]), value |-> targets[i], user |-> None]]

\* cachedAddrviews: classified target (by position) -> its addrv.
CachedAddrviews(targets) ==
    [i \in 1..Len(targets) |->
        IF TargetType(targets[i]) = "mail" THEN Some(TargetAddrv(targets[i])) ELSE None]

\* addrlist: the addrv of the mail targets, in order.
IsSome(o) == o # None
Unwrap(o) == o[1]
Addrlist(targets) ==
    LET c == SelectSeq(CachedAddrviews(targets), IsSome)
    IN  [i \in 1..Len(c) |-> Unwrap(c[i])]

\* A variant whose query matches the address field instead of addrview.
ResolveUsersByAddress(targets, cached, addrlist) ==
    LET addressList == {a \in addresses : \E i \in 1..Len(addrlist) : a.address = addrlist[i]}
        withUser == {a \in addressList : a.user # None}
        Has(addrv) == \E a \in withUser : a.address = addrv
        Get(addrv) == (CHOOSE a \in withUser : a.address = addrv).user
    IN  [i \in 1..Len(targets) |->
            IF cached[i] # None /\ Has(cached[i][1])
            THEN [targets[i] EXCEPT !.user = Get(cached[i][1])]
            ELSE targets[i]]

\* The callback of find({addrview: {$in: addrlist}}).toArray in resolveUsers.
ResolveUsers(targets, cached, addrlist) ==
    LET addressList == {a \in addresses : \E i \in 1..Len(addrlist) : a.addrview = addrlist[i]}
        withUser == {a \in addressList : a.user # None}
        Has(addrv) == \E a \in withUser : a.addrview = addrv
        Get(addrv) == (CHOOSE a \in withUser : a.addrview = addrv).user
    IN  [i \in 1..Len(targets) |->
            IF cached[i] # None /\ Has(cached[i][1])
            THEN [targets[i] EXCEPT !.user = Get(cached[i][1])]
            ELSE targets[i]]

NoAutoreply ==
    [enabled |-> None, start |-> None, end |-> None,
     subject |-> None, text |-> None, html |-> None]

Falsy(o) == o = None \/ o = Some("")

\* Joi on the autoreply object: '' is read as an unset key; `enabled`
\* defaults to true where the schema says so.
JoiAutoreply(raw, enabledDefault) ==
    [f \in DOMAIN raw |->
        IF f = "enabled"
        THEN (IF raw[f] = None /\ enabledDefault THEN Some(TRUE) ELSE raw[f])
        ELSE (IF raw[f] = Some("") THEN None ELSE raw[f])]

\* A variant that re-inserts the explicit empty values and nothing else.
NormalizeAutoreplyUncoupled(value, raw) ==
    [f \in DOMAIN value |->
        IF f \in {"subject", "text", "html"} /\ Falsy(value[f]) /\ raw[f] # None
        THEN Some("") ELSE value[f]]

\* The three if-blocks that re-insert explicit empty values.
NormalizeAutoreply(value, raw) ==
    LET v1 == IF Falsy(value.subject) /\ raw.subject # None
              THEN [value EXCEPT !.subject = Some("")] ELSE value
        v2 == IF Falsy(v1.text) /\ raw.text # None
              THEN [v1 EXCEPT !.text = Some(""),
                              !.html = IF Falsy(v1.html) THEN Some("") ELSE @]
              ELSE v1
        v3 == IF Falsy(v2.html) /\ raw.html # None
              THEN [v2 EXCEPT !.html = Some(""),
                              !.text = IF Falsy(v2.text) THEN Some("") ELSE @]
              ELSE v2
    IN  v3

(***************************************************************************)
(* POST /addresses/forwarded  (createForwardedAddress)                     *)
(***************************************************************************)
ForwardedWildcardError(address, allowWildcard) ==
    LET wcpos == IndexOf(address, "*") IN
    IF wcpos < 0 THEN ""
    ELSE IF ~allowWildcard THEN "Address can not contain *"
    ELSE IF WildcardRegexTest(ObjectToString) \/ wcpos # LastIndexOf(address, "*")
         THEN "Invalid wildcard address, use \"*@domain\" or \"user@*\""
    ELSE ""

\* A variant that stores the schema's default for a missing autoreply.
CreateAutoreplyEnabled(rawAutoreply) ==
    IF rawAutoreply # None
    THEN NormalizeAutoreply(JoiAutoreply(rawAutoreply[1], TRUE), rawAutoreply[1])
    ELSE [NoAutoreply EXCEPT !.enabled = Some(TRUE)]

\* result.value.autoreply after the if-blocks, or {enabled: false}.
CreateAutoreply(rawAutoreply) ==
    IF rawAutoreply # None
    THEN NormalizeAutoreply(JoiAutoreply(rawAutoreply[1], TRUE), rawAutoreply[1])
    ELSE AutoreplyDisabled

\* The handler up to its first store call.
CreateForwardedStart(s, rawAddress, rawTargets, forwards, allowWildcard, rawAutoreply) ==
    /\ Free(s)
    /\ LET p == [NoParams EXCEPT !.address = rawAddress, !.targets = rawTargets,
                                 !.forwards = forwards, !.allowWildcard = allowWildcard,
                                 !.autoreply = rawAutoreply]
           r == NewReq("createForwardedAddress", p)
           address == NormalizeAddress(rawAddress)
           addrview == AddrView(address)
           autoreply == CreateAutoreply(rawAutoreply)
       IN  IF ~JoiAddress(rawAddress) \/ ~JoiTargets(rawTargets)
           THEN Set(s, Respond(r, ErrorRes("invalid", "InputValidationError")))
           ELSE IF rawTargets = None
           THEN Set(s, Throw(r))
           ELSE IF ClassifyError(rawTargets[1], addrview) # ""
           THEN Set(s, Respond(r, ErrorRes(ClassifyError(rawTargets[1], addrview),
                                           "InputValidationError")))
           ELSE IF ContainsPlus(address)
           THEN Set(s, Respond(r, ErrorRes("Address can not contain +", "")))
           ELSE IF ForwardedWildcardError(address, allowWildcard) # ""
           THEN Set(s, Respond(r, ErrorRes(ForwardedWildcardError(address, allowWildcard), "")))
           ELSE Set(s, [r EXCEPT !.pc = "cf_findAddress", !.address = address,
                                 !.targets = Some(ClassifyTargets(rawTargets[1])),
                                 !.cached = CachedAddrviews(rawTargets[1]),
                                 !.addrlist = Addrlist(rawTargets[1]),
                                 !.updates = Some(autoreply)])
    /\ UNCHANGED <<addresses, users, nextId>>

\* addresses.findOne({addrview}) and its callback: the pre-check, then
\* resolveUsers, which calls the store only when there are mail targets.
CreateForwardedFindAddress(s) ==
    /\ req[s].pc = "cf_findAddress"
    /\ \E err \in BOOLEAN :
        LET r == req[s] IN
        IF err THEN Set(s, Respond(r, DbError))
        ELSE IF FindByAddrview(AddrView(r.address)) # {}
        THEN Set(s, Respond(r, ErrorRes("This email address already exists", "AddressExists")))
        ELSE IF Len(r.addrlist) = 0
        THEN Set(s, [r EXCEPT !.pc = "cf_insert"])
        ELSE Set(s, [r EXCEPT !.pc = "cf_resolveUsers"])
    /\ UNCHANGED <<addresses, users, nextId>>

\* addresses.find({addrview: {$in: addrlist}}).toArray and its callback.
CreateForwardedResolveUsers(s) ==
    /\ req[s].pc = "cf_resolveUsers"
    /\ \E err \in BOOLEAN :
        LET r == req[s] IN
        IF err THEN Set(s, Respond(r, DbError))
        ELSE Set(s, [r EXCEPT !.pc = "cf_insert",
                              !.targets = Some(ResolveUsers(r.targets[1], r.cached, r.addrlist))])
    /\ UNCHANGED <<addresses, users, nextId>>

\* addresses.insertOne({address, addrview, targets, forwards, autoreply,
\* created}) and its callback.
CreateForwardedInsert(s) ==
    /\ req[s].pc = "cf_insert"
    /\ \E err \in BOOLEAN :
        LET r == req[s]
            forwards == IF r.p.forwards = None THEN 0 ELSE r.p.forwards[1]
            doc == ForwardedAddressDoc(nextId + 1, r.address, r.targets[1],
                                       forwards, r.updates[1])
        IN  IF err \/ InsertUnique(doc) = "duplicate"
            THEN /\ Set(s, Respond(r, IF err THEN DbError ELSE DuplicateKeyError))
                 /\ UNCHANGED <<addresses, nextId>>
            ELSE /\ nextId < MaxIds
                 /\ addresses' = addresses \cup {doc}
                 /\ nextId' = nextId + 1
                 /\ Set(s, Respond([r EXCEPT !.wrote = TRUE], SuccessRes(TRUE, doc.id)))
    /\ UNCHANGED users

(***************************************************************************)
(* GET /users/:user/addresses and GET /users/:user/addresses/:address      *)
(***************************************************************************)
\* Variants in which no address, or every address, counts as the default.
NeverMain(address, userAddress) == FALSE
AlwaysMain(address, userAddress) == TRUE

\* address.address === userData.address
IsMainAddress(address, userAddress) == Some(address) = userAddress

\* The characters of the model in the order of their character codes.
CodeOrder ==
    <<"*", "+", ".", ":", "@", "A", "_", "a", "b", "c", "h", "m", "p", "s",
      "t", "x", "y">>
CharCode(c) == CHOOSE i \in 1..Len(CodeOrder) : CodeOrder[i] = c

\* a <= b in the store's binary string order.
StringLeq(a, b) ==
    \/ \E k \in 1..Min(Len(a), Len(b)) :
        /\ \A j \in 1..(k - 1) : a[j] = b[j]
        /\ CharCode(a[k]) < CharCode(b[k])
    \/ /\ Len(a) <= Len(b)
       /\ \A j \in 1..Len(a) : a[j] = b[j]

\* find({user}).sort({addrview: 1}).toArray()
FindByUserSorted(user) ==
    LET found == {a \in addresses : a.user = Some(user)}
    IN  CHOOSE list \in [1..Cardinality(found) -> found] :
            /\ \A i, j \in 1..Cardinality(found) : i # j => list[i] # list[j]
            /\ \A i, j \in 1..Cardinality(found) :
                i < j => StringLeq(list[i].addrview, list[j].addrview)

\* addresses.map(address => ({id, address, main, created}))
AddressRows(list, userAddress) ==
    [i \in 1..Len(list) |->
        [id |-> list[i].id, address |-> list[i].address,
         main |-> IsMainAddress(list[i].address, userAddress),
         created |-> list[i].created]]

ListStart(s, user) ==
    /\ Free(s)
    /\ LET p == [NoParams EXCEPT !.user = user]
       IN  Set(s, [NewReq("listUserAddresses", p) EXCEPT !.pc = "la_findUser"])
    /\ UNCHANGED <<addresses, users, nextId>>

\* users.findOne({_id: user}) and its callback.
ListFindUser(s) ==
    /\ req[s].pc = "la_findUser"
    /\ \E err \in BOOLEAN :
        LET r == req[s] IN
        IF err THEN Set(s, Respond(r, DbError))
        ELSE IF r.p.user \notin Users
        THEN Set(s, Respond(r, ErrorRes("This user does not exist", "UserNotFound")))
        ELSE Set(s, [r EXCEPT !.pc = "la_find", !.userAddress = users[r.p.user]])
    /\ UNCHANGED <<addresses, users, nextId>>

\* addresses.find({user}).sort({addrview: 1}).toArray() and its callback.
ListFind(s) ==
    /\ req[s].pc = "la_find"
    /\ \E err \in BOOLEAN :
        LET r == req[s] IN
        IF err THEN Set(s, Respond(r, DbError))
        ELSE Set(s, Respond(r, [SuccessRes(TRUE, 0) EXCEPT
                !.results = AddressRows(FindByUserSorted(r.p.user), r.userAddress)]))
    /\ UNCHANGED <<addresses, users, nextId>>

GetAddressStart(s, user, id) ==
    /\ Free(s)
    /\ LET p == [NoParams EXCEPT !.user = user, !.id = id]
       IN  Set(s, [NewReq("getUserAddress", p) EXCEPT !.pc = "ga_findUser"])
    /\ UNCHANGED <<addresses, users, nextId>>

\* users.findOne({_id: user}) and its callback.
GetAddressFindUser(s) ==
    /\ req[s].pc = "ga_findUser"
    /\ \E err \in BOOLEAN :
        LET r == req[s] IN
        IF err THEN Set(s, Respond(r, DbError))
        ELSE IF r.p.user \notin Users
        THEN Set(s, Respond(r, ErrorRes("This user does not exist", "UserNotFound")))
        ELSE Set(s, [r EXCEPT !.pc = "ga_findAddress", !.userAddress = users[r.p.user]])
    /\ UNCHANGED <<addresses, users, nextId>>

\* addresses.findOne({_id: address, user}) and its callback.
GetAddressFindAddress(s) ==
    /\ req[s].pc = "ga_findAddress"
    /\ \E err \in BOOLEAN :
        LET r == req[s]
            found == {a \in FindById(r.p.id) : a.user = Some(r.p.user)}
            addressData == CHOOSE a \in found : TRUE
        IN  IF err THEN Set(s, Respond(r, DbError))
            ELSE IF found = {}
            THEN Set(s, Respond(r, ErrorRes("Invalid or unknown address", "AddressNotFound")))
            ELSE Set(s, Respond(r, [SuccessRes(TRUE, addressData.id) EXCEPT
                    !.body = [NoBody EXCEPT !.address = addressData.address,
                                            !.main = IsMainAddress(addressData.address,
                                                                   r.userAddress),
                                            !.created = addressData.created]]))
    /\ UNCHANGED <<addresses, users, nextId>>

(***************************************************************************)
(* PUT /users/:user/addresses/:address  (promoteToDefault)                 *)
(***************************************************************************)
NotFoundRes == ErrorRes("Invalid or unknown email address identifier", "AddressNotFound")

\* A variant that only tests that the record exists.
PromoteMissingOnly(found, user) == found = {}

\* !addressData || !addressData.user || addressData.user.toString() !== user.toString()
PromoteNotFound(found, user) ==
    \/ found = {}
    \/ \E addressData \in found :
        addressData.user = None \/ addressData.user # Some(user)

\* The handler up to its first store call.
PromoteStart(s, user, id, main) ==
    /\ Free(s)
    /\ LET p == [NoParams EXCEPT !.user = user, !.id = id, !.main = main]
           r == NewReq("promoteToDefault", p)
       IN  IF ~main
           THEN Set(s, Respond(r, ErrorRes("Cannot unset main status", "")))
           ELSE Set(s, [r EXCEPT !.pc = "pd_findUser"])
    /\ UNCHANGED <<addresses, users, nextId>>

\* users.findOne({_id: user}) and its callback.
PromoteFindUser(s) ==
    /\ req[s].pc = "pd_findUser"
    /\ \E err \in BOOLEAN :
        LET r == req[s] IN
        IF err THEN Set(s, Respond(r, DbError))
        ELSE IF r.p.user \notin Users
        THEN Set(s, Respond(r, ErrorRes("This user does not exist", "UserNotFound")))
        ELSE Set(s, [r EXCEPT !.pc = "pd_findAddress", !.userAddress = users[r.p.user]])
    /\ UNCHANGED <<addresses, users, nextId>>

\* A variant that writes the new default before the wildcard test.
PromoteFindAddressWriteFirst(s) ==
    /\ req[s].pc = "pd_findAddress"
    /\ LET r == req[s]
           found == FindById(r.p.id)
           addressData == CHOOSE a \in found : TRUE
       IN  IF PromoteNotFound(found, r.p.user)
           THEN Set(s, Respond(r, NotFoundRes)) /\ UNCHANGED users
           ELSE /\ users' = [users EXCEPT ![r.p.user] = Some(addressData.address)]
                /\ IF IndexOf(addressData.address, "*") >= 0
                   THEN Set(s, Respond([r EXCEPT !.wrote = TRUE], ErrorRes(
                            "Can not set wildcard address as default", "")))
                   ELSE Set(s, Respond([r EXCEPT !.wrote = TRUE], SuccessRes(TRUE, 0)))
    /\ UNCHANGED <<addresses, nextId>>

\* addresses.findOne({_id: address}) and its callback.
PromoteFindAddress(s) ==
    /\ req[s].pc = "pd_findAddress"
    /\ \E err \in BOOLEAN :
        LET r == req[s]
            found == FindById(r.p.id)
            addressData == CHOOSE a \in found : TRUE
        IN  IF err THEN Set(s, Respond(r, DbError))
            ELSE IF PromoteNotFound(found, r.p.user)
            THEN Set(s, Respond(r, NotFoundRes))
            ELSE IF IsMainAddress(addressData.address, r.userAddress)
            THEN Set(s, Respond(r, ErrorRes(
                    "Selected address is already the main email address for the user", "")))
            ELSE IF IndexOf(addressData.address, "*") >= 0 /\ r.p.main
            THEN Set(s, Respond(r, ErrorRes("Can not set wildcard address as default", "")))
            ELSE Set(s, [r EXCEPT !.pc = "pd_update", !.addressData = Some(addressData)])
    /\ UNCHANGED <<addresses, users, nextId>>

\* A variant that answers without writing the user document.
PromoteUpdateNoWrite(s) ==
    /\ req[s].pc = "pd_update"
    /\ Set(s, Respond(req[s], SuccessRes(TRUE, 0)))
    /\ UNCHANGED <<addresses, users, nextId>>

\* users.findOneAndUpdate({_id: user}, {$set: {address: addressData.address}})
\* and its callback.
PromoteUpdate(s) ==
    /\ req[s].pc = "pd_update"
    /\ \E err \in BOOLEAN :
        LET r == req[s] IN
        IF err
        THEN /\ Set(s, Respond(r, DbError))
             /\ UNCHANGED users
        ELSE /\ users' = [users EXCEPT ![r.p.user] = Some(r.addressData[1].address)]
             /\ Set(s, Respond([r EXCEPT !.wrote = TRUE], SuccessRes(TRUE, 0)))
    /\ UNCHANGED <<addresses, nextId>>

(***************************************************************************)
(* DELETE /users/:user/addresses/:address  (deleteUserAddress)             *)
(***************************************************************************)
\* A variant that only tests that the record exists.
DeleteMissingOnly(found, user) == found = {}

\* !addressData || addressData.user.toString() !== user.toString(), for a
\* document that has a user.
DeleteUserNotFound(found, user) ==
    found = {} \/ \E addressData \in found : addressData.user # Some(user)

DeleteUserStart(s, user, id) ==
    /\ Free(s)
    /\ LET p == [NoParams EXCEPT !.user = user, !.id = id]
       IN  Set(s, [NewReq("deleteUserAddress", p) EXCEPT !.pc = "du_findUser"])
    /\ UNCHANGED <<addresses, users, nextId>>

\* users.findOne({_id: user}) and its callback.
DeleteUserFindUser(s) ==
    /\ req[s].pc = "du_findUser"
    /\ \E err \in BOOLEAN :
        LET r == req[s] IN
        IF err THEN Set(s, Respond(r, DbError))
        ELSE IF r.p.user \notin Users
        THEN Set(s, Respond(r, ErrorRes("This user does not exist", "UserNotFound")))
        ELSE Set(s, [r EXCEPT !.pc = "du_findAddress", !.userAddress = users[r.p.user]])
    /\ UNCHANGED <<addresses, users, nextId>>

\* addresses.findOne({_id: address}) and its callback.  addressData.user
\* is dereferenced without a test: a document with no user throws.
DeleteUserFindAddress(s) ==
    /\ req[s].pc = "du_findAddress"
    /\ \E err \in BOOLEAN :
        LET r == req[s]
            found == FindById(r.p.id)
            addressData == CHOOSE a \in found : TRUE
        IN  IF err THEN Set(s, Respond(r, DbError))
            ELSE IF found # {} /\ addressData.user = None
            THEN Set(s, Throw(r))
            ELSE IF DeleteUserNotFound(found, r.p.user)
            THEN Set(s, Respond(r, NotFoundRes))
            ELSE IF IsMainAddress(addressData.address, r.userAddress)
            THEN Set(s, Respond(r, ErrorRes(
                    "Trying to delete main address. Set a new main address first", "")))
            ELSE Set(s, [r EXCEPT !.pc = "du_delete"])
    /\ UNCHANGED <<addresses, users, nextId>>

\* addresses.deleteOne({_id: address}) and its callback.
DeleteUserDelete(s) ==
    /\ req[s].pc = "du_delete"
    /\ \E err \in BOOLEAN :
        LET r == req[s]
            found == FindById(r.p.id)
        IN  IF err
            THEN /\ Set(s, Respond(r, DbError))
                 /\ UNCHANGED addresses
            ELSE /\ addresses' = addresses \ found
                 /\ Set(s, Respond([r EXCEPT !.wrote = (found # {})],
                                   SuccessRes(found # {}, 0)))
    /\ UNCHANGED <<users, nextId>>

(***************************************************************************)
(* PUT /addresses/forwarded/:address  (updateForwardedAddress)             *)
(***************************************************************************)
\* !addressData || !addressData.targets || addressData.user
ExistsOnly(found) == found = {}
UpdateForwardedNotFound(found) ==
    found = {} \/ \A a \in found : a.targets = None \/ a.user # None

NoUpdates == [forwards |-> None, autoreply |-> NoAutoreply, targets |-> None]

\* if (result.value.forwards) updates.forwards = result.value.forwards
UpdatesForwards(forwards) ==
    IF forwards # None /\ forwards[1] # 0 THEN forwards ELSE None

\* updates['autoreply.' + key] for every key of the normalized autoreply.
UpdatesAutoreply(rawAutoreply) ==
    IF rawAutoreply # None
    THEN NormalizeAutoreply(JoiAutoreply(rawAutoreply[1], FALSE), rawAutoreply[1])
    ELSE NoAutoreply

\* A variant that appends the new targets to the stored ones.
ApplyUpdatesMerging(doc, updates) ==
    [doc EXCEPT
        !.forwards = IF updates.forwards # None THEN updates.forwards ELSE @,
        !.targets = IF updates.targets # None
                    THEN Some(doc.targets[1] \o updates.targets[1]) ELSE @]

\* A variant that stores the patch's autoreply object in place of the old.
ApplyUpdatesReplacing(doc, updates) ==
    [doc EXCEPT
        !.forwards = IF updates.forwards # None THEN updates.forwards ELSE @,
        !.targets = IF updates.targets # None THEN updates.targets ELSE @,
        !.autoreply = IF \E f \in DOMAIN updates.autoreply : updates.autoreply[f] # None
                      THEN Some(updates.autoreply) ELSE @]

\* A variant that stamps the document with a new creation time.
ApplyUpdatesRestamping(doc, updates) ==
    [doc EXCEPT
        !.forwards = IF updates.forwards # None THEN updates.forwards ELSE @,
        !.targets = IF updates.targets # None THEN updates.targets ELSE @,
        !.created = 0]

\* {$set: updates} applied to a document: dotted autoreply keys are set
\* one by one inside the stored autoreply.
ApplyUpdates(doc, updates) ==
    LET old == IF doc.autoreply = None THEN NoAutoreply ELSE doc.autoreply[1]
        touched == \E f \in DOMAIN updates.autoreply : updates.autoreply[f] # None
        merged == [f \in DOMAIN old |->
                      IF updates.autoreply[f] # None THEN updates.autoreply[f] ELSE old[f]]
    IN  [doc EXCEPT
            !.forwards = IF updates.forwards # None THEN updates.forwards ELSE @,
            !.targets = IF updates.targets # None THEN updates.targets ELSE @,
            !.autoreply = IF touched THEN Some(merged) ELSE @]

\* The handler up to its first store call.
UpdateForwardedStart(s, id, rawTargets, forwards, rawAutoreply) ==
    /\ Free(s)
    /\ LET p == [NoParams EXCEPT !.id = id, !.targets = rawTargets,
                                 !.forwards = forwards, !.autoreply = rawAutoreply]
           r == NewReq("updateForwardedAddress", p)
           updates == [NoUpdates EXCEPT !.forwards = UpdatesForwards(forwards),
                                        !.autoreply = UpdatesAutoreply(rawAutoreply)]
       IN  IF ~JoiTargets(rawTargets)
           THEN Set(s, Respond(r, ErrorRes("invalid", "InputValidationError")))
           ELSE Set(s, [r EXCEPT !.pc = "uf_findAddress", !.updates = Some(updates)])
    /\ UNCHANGED <<addresses, users, nextId>>

\* addresses.findOne({_id: address}) and its callback: the kind test, the
\* classification loop and resolveUsers up to its store call.
UpdateForwardedFindAddress(s) ==
    /\ req[s].pc = "uf_findAddress"
    /\ \E err \in BOOLEAN :
        LET r == req[s]
            found == FindById(r.p.id)
            addressData == CHOOSE a \in found : TRUE
            targets == r.p.targets
        IN  IF err THEN Set(s, Respond(r, DbError))
            ELSE IF UpdateForwardedNotFound(found)
            THEN Set(s, Respond(r, NotFoundRes))
            ELSE IF targets # None /\ ClassifyError(targets[1], addressData.addrview) # ""
            THEN Set(s, Respond(r, ErrorRes(ClassifyError(targets[1], addressData.addrview),
                                            "InputValidationError")))
            ELSE IF targets = None
            THEN Set(s, [r EXCEPT !.pc = "uf_update", !.addressData = Some(addressData)])
            ELSE Set(s, [r EXCEPT
                    !.pc = IF Len(Addrlist(targets[1])) = 0
                           THEN "uf_update" ELSE "uf_resolveUsers",
                    !.addressData = Some(addressData),
                    !.targets = Some(ClassifyTargets(targets[1])),
                    !.cached = CachedAddrviews(targets[1]),
                    !.addrlist = Addrlist(targets[1])])
    /\ UNCHANGED <<addresses, users, nextId>>

\* addresses.find({addrview: {$in: addrlist}}).toArray and its callback.
UpdateForwardedResolveUsers(s) ==
    /\ req[s].pc = "uf_resolveUsers"
    /\ \E err \in BOOLEAN :
        LET r == req[s] IN
        IF err THEN Set(s, Respond(r, DbError))
        ELSE Set(s, [r EXCEPT !.pc = "uf_update",
                              !.targets = Some(ResolveUsers(r.targets[1], r.cached, r.addrlist))])
    /\ UNCHANGED <<addresses, users, nextId>>

\* A variant whose update inserts the document when none matches (upsert).
UpdateForwardedUpdateUpsert(s) ==
    /\ req[s].pc = "uf_update"
    /\ \E err \in BOOLEAN :
        LET r == req[s]
            updates == IF r.targets # None /\ Len(r.targets[1]) > 0
                       THEN [r.updates[1] EXCEPT !.targets = r.targets]
                       ELSE r.updates[1]
            found == FindById(r.addressData[1].id)
            doc == IF found = {} THEN r.addressData[1] ELSE CHOOSE a \in found : TRUE
        IN  IF err
            THEN /\ Set(s, Respond(r, DbError))
                 /\ UNCHANGED addresses
            ELSE /\ addresses' = (addresses \ {doc}) \cup {ApplyUpdates(doc, updates)}
                 /\ Set(s, Respond([r EXCEPT !.wrote = TRUE], SuccessRes(TRUE, 0)))
    /\ UNCHANGED <<users, nextId>>

\* addresses.findOneAndUpdate({_id: addressData._id}, {$set: updates},
\* {returnOriginal: false}) and its callback.
UpdateForwardedUpdate(s) ==
    /\ req[s].pc = "uf_update"
    /\ \E err \in BOOLEAN :
        LET r == req[s]
            updates == IF r.targets # None /\ Len(r.targets[1]) > 0
                       THEN [r.updates[1] EXCEPT !.targets = r.targets]
                       ELSE r.updates[1]
            found == FindById(r.addressData[1].id)
            doc == CHOOSE a \in found : TRUE
        IN  IF err
            THEN /\ Set(s, Respond(r, DbError))
                 /\ UNCHANGED addresses
            ELSE IF found = {}
            THEN /\ Set(s, Respond(r, SuccessRes(FALSE, 0)))
                 /\ UNCHANGED addresses
            ELSE /\ addresses' = (addresses \ {doc}) \cup {ApplyUpdates(doc, updates)}
                 /\ Set(s, Respond([r EXCEPT !.wrote = TRUE], SuccessRes(TRUE, 0)))
    /\ UNCHANGED <<users, nextId>>

(***************************************************************************)
(* DELETE /addresses/forwarded/:address  (deleteForwardedAddress)          *)
(***************************************************************************)
\* !addressData || !addressData.targets || addressData.user
DeleteForwardedNotFound(found) ==
    found = {} \/ \A a \in found : a.targets = None \/ a.user # None

DeleteForwardedStart(s, id) ==
    /\ Free(s)
    /\ LET p == [NoParams EXCEPT !.id = id]
       IN  Set(s, [NewReq("deleteForwardedAddress", p) EXCEPT !.pc = "df_findAddress"])
    /\ UNCHANGED <<addresses, users, nextId>>

\* addresses.findOne({_id: address}) and its callback.
DeleteForwardedFindAddress(s) ==
    /\ req[s].pc = "df_findAddress"
    /\ \E err \in BOOLEAN :
        LET r == req[s]
            found == FindById(r.p.id)
            addressData == CHOOSE a \in found : TRUE
        IN  IF err THEN Set(s, Respond(r, DbError))
            ELSE IF DeleteForwardedNotFound(found)
            THEN Set(s, Respond(r, NotFoundRes))
            ELSE Set(s, [r EXCEPT !.pc = "df_delete"])
    /\ UNCHANGED <<addresses, users, nextId>>

\* addresses.deleteOne({_id: address}) and its callback.
DeleteForwardedDelete(s) ==
    /\ req[s].pc = "df_delete"
    /\ \E err \in BOOLEAN :
        LET r == req[s]
            found == FindById(r.p.id)
        IN  IF err
            THEN /\ Set(s, Respond(r, DbError))
                 /\ UNCHANGED addresses
            ELSE /\ addresses' = addresses \ found
                 /\ Set(s, Respond([r EXCEPT !.wrote = (found # {})],
                                   SuccessRes(found # {}, 0)))
    /\ UNCHANGED <<users, nextId>>

(***************************************************************************)
(* Forward counters (redis) and the limits block of the two read handlers. *)
(***************************************************************************)
\* consts.MAX_FORWARDS, used when neither the document nor the
\* configuration sets a limit.
MAX_FORWARDS == 2000

\* What multi().get(key).ttl(key).exec hands to its callback: an error
\* with no result, or the counter (None when the key is missing) and the
\* ttl in seconds (-2: no key, -1: no expiry).
TrackerReplies ==
    { [err |-> TRUE, count |-> None, ttl |-> 0],
      [err |-> FALSE, count |-> None, ttl |-> -2],
      [err |-> FALSE, count |-> Some(3), ttl |-> -1],
      [err |-> FALSE, count |-> Some(3), ttl |-> 60] }

\* A variant that ignores the quota of the document.
AllowedForwardsDefaultOnly(doc) == MAX_FORWARDS

\* Number(addressData.forwards) || config.maxForwards || consts.MAX_FORWARDS
AllowedForwards(doc) ==
    IF doc.forwards # None /\ doc.forwards[1] # 0 THEN doc.forwards[1] ELSE MAX_FORWARDS

\* Number(result && result[0] && result[0][1]) || 0
ForwardsSent(reply) ==
    IF reply.err \/ reply.count = None THEN 0 ELSE reply.count[1]

\* A variant that reads a negative ttl as 0.
ForwardsTtlNotNegative(reply) == IF reply.err \/ reply.ttl < 0 THEN 0 ELSE reply.ttl

\* Number(result && result[1] && result[1][1]) || 0
ForwardsTtl(reply) == IF reply.err THEN 0 ELSE reply.ttl

\* The body answered for a forwarded address; ttl None stands for false.
ForwardedBody(doc, reply) ==
    [NoBody EXCEPT
        !.address = doc.address,
        !.targets = IF doc.targets = None THEN None
                    ELSE Some([i \in 1..Len(doc.targets[1]) |-> doc.targets[1][i].value]),
        !.allowed = AllowedForwards(doc),
        !.used = ForwardsSent(reply),
        !.ttl = IF ForwardsTtl(reply) >= 0 THEN Some(ForwardsTtl(reply)) ELSE None,
        !.autoreply = IF doc.autoreply = None THEN Some(AutoreplyDisabled) ELSE doc.autoreply,
        !.created = doc.created]

(***************************************************************************)
(* GET /addresses/forwarded/:address  (getForwardingStatus)                *)
(***************************************************************************)
\* !addressData || !addressData.targets || addressData.user
StatusNotFound(found) ==
    found = {} \/ \A a \in found : a.targets = None \/ a.user # None

StatusStart(s, id) ==
    /\ Free(s)
    /\ LET p == [NoParams EXCEPT !.id = id]
       IN  Set(s, [NewReq("getForwardingStatus", p) EXCEPT !.pc = "fs_findAddress"])
    /\ UNCHANGED <<addresses, users, nextId>>

\* addresses.findOne({_id: address}) and its callback.
StatusFindAddress(s) ==
    /\ req[s].pc = "fs_findAddress"
    /\ \E err \in BOOLEAN :
        LET r == req[s]
            found == FindById(r.p.id)
            addressData == CHOOSE a \in found : TRUE
        IN  IF err THEN Set(s, Respond(r, DbError))
            ELSE IF StatusNotFound(found)
            THEN Set(s, Respond(r, ErrorRes("Invalid or unknown address", "AddressNotFound")))
            ELSE Set(s, [r EXCEPT !.pc = "fs_tracker", !.addressData = Some(addressData)])
    /\ UNCHANGED <<addresses, users, nextId>>

\* redis.multi().get().ttl().exec and its callback.
StatusTracker(s) ==
    /\ req[s].pc = "fs_tracker"
    /\ \E reply \in TrackerReplies :
        LET r == req[s]
            doc == r.addressData[1]
        IN  Set(s, [Respond(r, [SuccessRes(TRUE, doc.id) EXCEPT
                                   !.body = ForwardedBody(doc, reply)])
                    EXCEPT !.tracker = Some(reply)])
    /\ UNCHANGED <<addresses, users, nextId>>

(***************************************************************************)
(* GET /addresses/resolve/:address  (resolve)                              *)
(***************************************************************************)
\* The 24-digit hex string of an ObjectID, shortened to two digits.
Digits == <<"1", "2", "3", "4", "5", "6", "7", "8", "9">>
HexId(n) == <<"0", Digits[n]>>
\* new ObjectID(str)
ObjectID(str) == CHOOSE n \in 1..Len(Digits) : HexId(n) = str
\* Joi.string().hex().length(24)
JoiHexId(str) == \E n \in 1..Len(Digits) : HexId(n) = str

\* The handler up to its store call: the query is by addrview when the
\* parameter contains '@', by _id otherwise.
ResolveStart(s, param) ==
    /\ Free(s)
    /\ LET p == [NoParams EXCEPT !.address = param]
           r == NewReq("resolve", p)
       IN  IF ~(JoiHexId(param) \/ JoiEmail(param))
           THEN Set(s, Respond(r, ErrorRes("invalid", "InputValidationError")))
           ELSE IF IndexOf(param, "@") >= 0
           THEN Set(s, [r EXCEPT !.pc = "rs_findAddress",
                                 !.address = AddrView(NormalizeAddress(param))])
           ELSE Set(s, [r EXCEPT !.pc = "rs_findAddress",
                                 !.insertId = ObjectID(param)])
    /\ UNCHANGED <<addresses, users, nextId>>

\* addresses.findOne(query) and its callback.
ResolveFindAddress(s) ==
    /\ req[s].pc = "rs_findAddress"
    /\ \E err \in BOOLEAN :
        LET r == req[s]
            found == IF r.insertId # 0 THEN FindById(r.insertId)
                     ELSE FindByAddrview(r.address)
        IN  IF err THEN Set(s, Respond(r, DbError))
            ELSE IF found = {}
            THEN Set(s, Respond(r, ErrorRes("Invalid or unknown address", "AddressNotFound")))
            ELSE \E addressData \in found :
                IF addressData.user # None
                THEN Set(s, Respond(r, [SuccessRes(TRUE, addressData.id) EXCEPT
                        !.body = [NoBody EXCEPT !.address = addressData.address,
                                                !.user = addressData.user,
                                                !.created = addressData.created]]))
                ELSE Set(s, [r EXCEPT !.pc = "rs_tracker",
                                      !.addressData = Some(addressData)])
    /\ UNCHANGED <<addresses, users, nextId>>

\* redis.multi().get().ttl().exec and its callback.
ResolveTracker(s) ==
    /\ req[s].pc = "rs_tracker"
    /\ \E reply \in TrackerReplies :
        LET r == req[s]
            doc == r.addressData[1]
        IN  Set(s, [Respond(r, [SuccessRes(TRUE, doc.id) EXCEPT
                                   !.body = ForwardedBody(doc, reply)])
                    EXCEPT !.tracker = Some(reply)])
    /\ UNCHANGED <<addresses, users, nextId>>

(***************************************************************************)
(* Request parameters the model draws from.                                *)
(***************************************************************************)
Addr_a_b_x == <<"a", ".", "b", "@", "x">>
Addr_ab_x == <<"a", "b", "@", "x">>
Addr_Ab_x == <<"A", "b", "@", "x">>
Addr_c_x_y == <<"c", "@", "x", ".", "y">>
Addr_c_xy == <<"c", "@", "x", "y">>
Addr_plus == <<"a", "+", "b", "@", "x">>
Addr_star_x == <<"*", "@", "x">>
Addr_a_star == <<"a", "@", "*">>
Addr_stara_x == <<"*", "a", "@", "x">>
Addr_astar_xstar == <<"a", "*", "@", "x", "*">>
Addr_star_star == <<"*", "@", "*">>
Target_smtp == <<"s", "m", "t", "p", ":", "h", "@", "x">>
Target_http == <<"h", "t", "t", "p", "s", ":", "h">>
Target_bare == <<"h">>
Target_http_at == <<"h", "t", "t", "p", ":", "h", "@", "x">>

IdInputs == 1..MaxIds

\* Dotted, undotted and upper-case spellings, all kinds of target.
MainInputs ==
    [users |-> UserParams,
     addresses |-> {Addr_a_b_x, Addr_ab_x, Addr_Ab_x, Addr_c_x_y},
     mains |-> BOOLEAN,
     wildcards |-> {FALSE},
     targets |-> {None, Some(<<Addr_a_b_x>>), Some(<<Target_smtp, Addr_c_x_y>>),
                  Some(<<Target_bare>>)},
     forwards |-> {None},
     autoreplies |-> {None},
     resolves |-> {Addr_a_b_x, Addr_c_x_y, Addr_c_xy, Target_bare}
                    \cup {HexId(n) : n \in IdInputs}]

\* Addresses with '*' and '+'.
WildcardInputs ==
    [users |-> {"u1"},
     addresses |-> {Addr_ab_x, Addr_plus, Addr_star_x, Addr_a_star, Addr_stara_x,
                    Addr_astar_xstar, Addr_star_star},
     mains |-> BOOLEAN,
     wildcards |-> BOOLEAN,
     targets |-> {Some(<<Target_http, Addr_ab_x>>)},
     forwards |-> {None},
     autoreplies |-> {None},
     resolves |-> {Addr_star_x} \cup {HexId(n) : n \in IdInputs}]

\* Two spellings of one address, for requests that race.
RaceInputs ==
    [users |-> {"u1"},
     addresses |-> {Addr_a_b_x, Addr_ab_x},
     mains |-> BOOLEAN,
     wildcards |-> {FALSE},
     targets |-> {Some(<<Addr_c_x_y>>)},
     forwards |-> {None},
     autoreplies |-> {None},
     resolves |-> {Addr_ab_x} \cup {HexId(n) : n \in IdInputs}]

\* Two addresses one user can own together, for requests that race.
DefaultRaceInputs ==
    [users |-> {"u1"},
     addresses |-> {Addr_ab_x, Addr_c_x_y},
     mains |-> BOOLEAN,
     wildcards |-> {FALSE},
     targets |-> {Some(<<Addr_c_x_y>>)},
     forwards |-> {None},
     autoreplies |-> {None},
     resolves |-> {Addr_ab_x} \cup {HexId(n) : n \in IdInputs}]

\* Autoreply objects of a request: a key that is absent is None, '' is an
\* explicit empty value.
Reply_text_html == [NoAutoreply EXCEPT !.text = Some("t"), !.html = Some("h")]
Reply_text_empty == [NoAutoreply EXCEPT !.text = Some("")]
Reply_html_empty_text == [NoAutoreply EXCEPT !.html = Some(""), !.text = Some("t")]
Reply_subject == [NoAutoreply EXCEPT !.subject = Some("s")]
Reply_disable == [NoAutoreply EXCEPT !.enabled = Some(FALSE), !.html = Some("")]

\* One forwarded address with quotas and autoreplies; target lists of every
\* kind, an empty one and one the schema rejects.
ForwardInputs ==
    [users |-> {"u1"},
     addresses |-> {Addr_ab_x},
     mains |-> {TRUE},
     wildcards |-> {FALSE},
     targets |-> {None, Some(<<Addr_c_x_y>>), Some(<<>>), Some(<<Target_bare>>),
                  Some(<<Target_smtp, Target_http_at, Addr_c_x_y>>)},
     forwards |-> {None, Some(0), Some(5)},
     autoreplies |-> {None, Some(Reply_text_html), Some(Reply_text_empty),
                      Some(Reply_html_empty_text), Some(Reply_subject),
                      Some(Reply_disable)},
     resolves |-> {Addr_a_b_x} \cup {HexId(n) : n \in IdInputs}]

(***************************************************************************)
(* Specifications.                                                         *)
(***************************************************************************)
\* A new request arrives on slot s, its parameters drawn from F.
Start(s, F) ==
    \/ \E user \in F.users, a \in F.addresses, main \in F.mains, wc \in F.wildcards :
            CreateUserStart(s, user, a, main, wc)
    \/ \E a \in F.addresses, t \in F.targets, f \in F.forwards,
          wc \in F.wildcards, ar \in F.autoreplies :
            CreateForwardedStart(s, a, t, f, wc, ar)
    \/ \E user \in F.users, id \in IdInputs, main \in F.mains :
            PromoteStart(s, user, id, main)
    \/ \E user \in F.users, id \in IdInputs : DeleteUserStart(s, user, id)
    \/ \E id \in IdInputs, t \in F.targets, f \in F.forwards, ar \in F.autoreplies :
            UpdateForwardedStart(s, id, t, f, ar)
    \/ \E id \in IdInputs : DeleteForwardedStart(s, id)
    \/ \E user \in F.users : ListStart(s, user)
    \/ \E user \in F.users, id \in IdInputs : GetAddressStart(s, user, id)
    \/ \E id \in IdInputs : StatusStart(s, id)
    \/ \E param \in F.resolves : ResolveStart(s, param)

\* The request on slot s takes its next store call.
Step(s) ==
    \/ CreateUserFindUser(s)
    \/ CreateUserFindAddress(s)
    \/ CreateUserInsert(s)
    \/ CreateUserSetDefault(s)
    \/ ListFindUser(s)
    \/ ListFind(s)
    \/ GetAddressFindUser(s)
    \/ GetAddressFindAddress(s)
    \/ CreateForwardedFindAddress(s)
    \/ CreateForwardedResolveUsers(s)
    \/ CreateForwardedInsert(s)
    \/ PromoteFindUser(s)
    \/ PromoteFindAddress(s)
    \/ PromoteUpdate(s)
    \/ DeleteUserFindUser(s)
    \/ DeleteUserFindAddress(s)
    \/ DeleteUserDelete(s)
    \/ UpdateForwardedFindAddress(s)
    \/ UpdateForwardedResolveUsers(s)
    \/ UpdateForwardedUpdate(s)
    \/ DeleteForwardedFindAddress(s)
    \/ DeleteForwardedDelete(s)
    \/ StatusFindAddress(s)
    \/ StatusTracker(s)
    \/ ResolveFindAddress(s)
    \/ ResolveTracker(s)

\* Requests executed one at a time: only slot 1 is used.
Next == Start(1, MainInputs) \/ Step(1) \/ Finish(1)

Spec == Init /\ [][Next]_vars

NextW == Start(1, WildcardInputs) \/ Step(1) \/ Finish(1)

SpecW == Init /\ [][NextW]_vars

\* Two requests in flight at once, their store calls interleaved.
NextC == \E s \in Slots : Start(s, RaceInputs) \/ Step(s) \/ Finish(s)

SpecC == Init /\ [][NextC]_vars

NextF == Start(1, ForwardInputs) \/ Step(1) \/ Finish(1)

SpecF == Init /\ [][NextF]_vars

NextD == \E s \in Slots : Start(s, DefaultRaceInputs) \/ Step(s) \/ Finish(s)

SpecD == Init /\ [][NextD]_vars

(***************************************************************************)
(* Properties.                                                             *)
(***************************************************************************)
\* The canonical key of the specification: the text before the first '@'
\* without its dots, then '@' and the domain as written.
CanonicalKey(a) ==
    LET at == CHOOSE i \in 1..Len(a) : a[i] = "@" /\ \A j \in 1..(i - 1) : a[j] # "@"
        local == [i \in 1..(at - 1) |-> a[i]]
        domain == [i \in 1..(Len(a) - at) |-> a[at + i]]
        Fold[i \in 0..Len(local)] ==
            IF i = 0 THEN <<>>
            ELSE IF local[i] = "." THEN Fold[i - 1] ELSE Append(Fold[i - 1], local[i])
    IN  Fold[Len(local)] \o <<"@">> \o domain

IsCreate(r) == r.op \in {"createUserAddress", "createForwardedAddress"}
Answered(r) == r.pc = "done"
Over(r) == r.pc \in {"done", "thrown"}
IsUserAddress(doc) == doc.user # None
IsForwardedAddress(doc) == doc.targets # None

\* C1: with requests executed one at a time, no two stored address records
\* have the same canonical key.
C1_CanonicalKeyUnique ==
    \A d1 \in addresses : \A d2 \in addresses :
        CanonicalKey(d1.address) = CanonicalKey(d2.address) => d1 = d2

\* Two records are stored and a further create was refused as a duplicate.
C1_Witness ==
    /\ Cardinality(addresses) = 2
    /\ Answered(req[1]) /\ IsCreate(req[1])
    /\ req[1].res.code = "AddressExists"

\* C2: when two creates race on one canonical key and both pass the pre-check
\* before either inserts, at most one succeeds, the other is answered
\* AddressExists (not a store error), and the canonical keys stay unique.
C2_RaceLoserAnsweredAddressExists ==
    /\ C1_CanonicalKeyUnique
    /\ \A s \in Slots : \A t \in Slots \ {s} :
        (/\ IsCreate(req[s]) /\ IsCreate(req[t])
         /\ Answered(req[s]) /\ Answered(req[t])
         /\ CanonicalKey(NormalizeAddress(req[s].p.address))
                = CanonicalKey(NormalizeAddress(req[t].p.address))
         /\ req[s].from \in {"cu_insert", "cf_insert"}
         /\ req[t].res.success
         /\ req[s].res # DbError)
        => /\ ~req[s].res.success
           /\ req[s].res.code = "AddressExists"

\* C3: every stored record is either a User Address (owner, no forwarding
\* fields) or a Forwarded Address (targets, no owner), never both or neither.
C3_UserXorForwarded ==
    \A d \in addresses :
        \/ d.user # None /\ d.targets = None /\ d.forwards = None /\ d.autoreply = None
        \/ d.user = None /\ d.targets # None

\* Both kinds are stored and an update of the forwarded one succeeded.
C3_Witness ==
    /\ \E d \in addresses : IsUserAddress(d)
    /\ \E d \in addresses : IsForwardedAddress(d)
    /\ Answered(req[1]) /\ req[1].op = "updateForwardedAddress"
    /\ req[1].p.targets # None /\ req[1].res.success

\* C4: no user's default address contains '*'.
C4_DefaultNeverWildcard ==
    \A u \in Users : users[u] = None \/ IndexOf(users[u][1], "*") < 0

\* "*@domain" or "user@*": one '*', next to '@', alone on its side.
WellFormedWildcard(a) ==
    /\ CountOf(a, "*") = 1
    /\ Len(a) >= 3
    /\ \/ a[1] = "*" /\ a[2] = "@"
       \/ a[Len(a)] = "*" /\ a[Len(a) - 1] = "@"

MalformedWildcard(a) == CountOf(a, "*") >= 1 /\ ~WellFormedWildcard(a)

\* C5: a malformed wildcard address is rejected by both create operations,
\* with allowWildcard set or not, and no record is inserted.
C5_MalformedWildcardRejected ==
    \A s \in Slots :
        (IsCreate(req[s]) /\ MalformedWildcard(req[s].p.address))
        => /\ ~req[s].wrote
           /\ Answered(req[s]) => ~req[s].res.success

\* C6: "*@domain" and "user@*" pass the validation of both create operations
\* (createUserAddress without makeDefault) when allowWildcard is set, and are
\* rejected with nothing inserted when it is not.
C6_WellFormedWildcardByFlag ==
    \A s \in Slots :
        LET r == req[s] IN
        (IsCreate(r) /\ WellFormedWildcard(r.p.address)) =>
            IF ~r.p.allowWildcard
            THEN Answered(r) /\ r.from = "start" /\ ~r.res.success /\ ~r.wrote
            ELSE (Over(r) /\ ~(r.op = "createUserAddress" /\ r.p.main)) =>
                    /\ Answered(r)
                    /\ \/ /\ r.res.success /\ r.wrote
                          /\ \E d \in addresses :
                                d.id = r.res.id /\ d.address = NormalizeAddress(r.p.address)
                       \/ /\ r.from # "start"
                          /\ r.res.code \in {"UserNotFound", "AddressExists",
                                             "InternalDatabaseError"}

\* "user@*" was stored as a forwarded address with allowWildcard set.
C6_Witness ==
    /\ Answered(req[1]) /\ req[1].op = "createForwardedAddress"
    /\ req[1].p.address = Addr_a_star /\ req[1].p.allowWildcard
    /\ req[1].res.success
    /\ \E d \in addresses : d.id = req[1].res.id /\ d.address = Addr_a_star

\* C7: a create with '+' in the address fails before any store call, inserts
\* nothing and changes no default; no stored address contains '+'.
C7_PlusRejected ==
    /\ \A s \in Slots :
        (IsCreate(req[s]) /\ CountOf(req[s].p.address, "+") > 0)
        => /\ Over(req[s]) /\ req[s].from = "start"
           /\ ~req[s].res.success /\ ~req[s].wrote
    /\ \A d \in addresses : CountOf(d.address, "+") = 0

\* A create of "a+b@x" was refused while a record is stored.
C7_Witness ==
    /\ Answered(req[1]) /\ IsCreate(req[1])
    /\ req[1].p.address = Addr_plus
    /\ req[1].res.error = "Address can not contain +"
    /\ addresses # {}

\* The request on slot s met a stored record with its canonical key that
\* it did not insert itself.
Collides(s) ==
    \E d \in addresses :
        /\ CanonicalKey(d.address) = CanonicalKey(NormalizeAddress(req[s].p.address))
        /\ ~(req[s].res.success /\ req[s].res.id = d.id)

\* C8: a create whose canonical key is that of an existing record, of either
\* kind, writes nothing, and the pre-check answers it AddressExists.
C8_CollisionAddressExists ==
    \A s \in Slots :
        (IsCreate(req[s]) /\ Answered(req[s]) /\ JoiAddress(req[s].p.address)
            /\ Collides(s))
        => /\ ~req[s].res.success /\ ~req[s].wrote
           /\ req[s].from \in {"start", "cu_findUser", "cu_findAddress", "cf_findAddress"}
           /\ (req[s].from \in {"cu_findAddress", "cf_findAddress"} /\ req[s].res # DbError)
                => req[s].res.code = "AddressExists"

\* "ab@x" as a forwarded address was refused because "a.b@x" is stored as a
\* user address.
C8_Witness ==
    /\ Answered(req[1]) /\ req[1].op = "createForwardedAddress"
    /\ req[1].p.address = Addr_ab_x
    /\ req[1].res.code = "AddressExists"
    /\ \E d \in addresses : IsUserAddress(d) /\ d.address = Addr_a_b_x

\* C9: the key stored with a record, the key resolve looks up and the key
\* of a mail target are all the canonical key: local part without dots, '@',
\* domain unchanged.
C9_AddrviewIsCanonicalKey ==
    /\ \A d \in addresses : d.addrview = CanonicalKey(d.address)
    /\ \A s \in Slots :
        LET r == req[s] IN
        /\ (r.pc = "rs_findAddress" /\ r.insertId = 0)
            => r.address = CanonicalKey(NormalizeAddress(r.p.address))
        /\ (r.pc \in {"cu_findAddress", "cu_insert", "cf_findAddress", "cf_insert"})
            => AddrView(r.address) = CanonicalKey(NormalizeAddress(r.p.address))
        /\ \A i \in 1..Len(r.cached) :
            r.cached[i] # None
            => r.cached[i][1] = CanonicalKey(NormalizeAddress(r.p.targets[1][i]))

\* "a.b@x" is stored under "ab@x" and "c@x.y" under "c@x.y", and resolve is
\* about to look up "c@xy" under "c@xy".
C9_Witness ==
    /\ \E d \in addresses : d.address = Addr_a_b_x /\ d.addrview = Addr_ab_x
    /\ \E d \in addresses : d.address = Addr_c_x_y /\ d.addrview = Addr_c_x_y
    /\ req[1].pc = "rs_findAddress" /\ req[1].p.address = Addr_c_xy
    /\ req[1].address = Addr_c_xy

\* Target i of the list is a mail target with the canonical key `key`.
SelfTarget(targets, key) ==
    \E i \in 1..Len(targets) :
        /\ TargetType(targets[i]) = "mail"
        /\ CanonicalKey(NormalizeAddress(targets[i])) = key

\* C10: no stored Forwarded Address has a mail target with the record's
\* own canonical key; a create or update with such a target fails and
\* stores nothing.
C10_NoSelfForward ==
    /\ \A d \in addresses :
        IsForwardedAddress(d) =>
            \A i \in 1..Len(d.targets[1]) :
                d.targets[1][i].type = "mail"
                => CanonicalKey(NormalizeAddress(d.targets[1][i].value))
                        # CanonicalKey(d.address)
    /\ \A s \in Slots :
        LET r == req[s] IN
        /\ (r.op = "createForwardedAddress" /\ JoiAddress(r.p.address)
                /\ r.p.targets # None
                /\ SelfTarget(r.p.targets[1], CanonicalKey(NormalizeAddress(r.p.address))))
            => Answered(r) /\ r.from = "start" /\ ~r.res.success /\ ~r.wrote
        /\ (r.op = "updateForwardedAddress" /\ r.p.targets # None
                /\ \E d \in addresses :
                    /\ d.id = r.p.id /\ IsForwardedAddress(d)
                    /\ SelfTarget(r.p.targets[1], CanonicalKey(d.address)))
            => ~r.wrote /\ r.pc # "uf_update" /\ ~r.res.success

\* An update of the stored "ab@x" to forward to "a.b@x" was refused.
C10_Witness ==
    /\ Answered(req[1]) /\ req[1].op = "updateForwardedAddress"
    /\ req[1].p.targets = Some(<<Addr_a_b_x>>)
    /\ req[1].res.error = "Can not forward to self"
    /\ \E d \in addresses :
        d.id = req[1].p.id /\ IsForwardedAddress(d) /\ d.address = Addr_ab_x

\* The record a promote or delete request names, when it is a User Address
\* of the user the request names.
OwnRecord(r) == {d \in addresses : d.id = r.p.id /\ d.user = Some(r.p.user)}

\* The user's default address is the address of d.
IsDefaultOf(d, u) == u \in Users /\ users[u] = Some(d.address)

DeleteMainError == "Trying to delete main address. Set a new main address first"

\* C11: deleteUserAddress on the record whose address is the owner's
\* current default is refused: it never reaches the deleteOne call, writes
\* nothing, and is answered with the delete-main error.
C11_DeleteDefaultRefused ==
    \A s \in Slots :
        LET r == req[s] IN
        (r.op = "deleteUserAddress"
            /\ \E d \in OwnRecord(r) : IsDefaultOf(d, r.p.user))
        => /\ r.pc # "du_delete"
           /\ ~r.wrote
           /\ Answered(r) => ~r.res.success
           /\ (Answered(r) /\ r.from = "du_findAddress" /\ r.res # DbError)
                => r.res.error = DeleteMainError

\* The delete of the default was refused; record and default are in place.
C11_Witness ==
    /\ Answered(req[1]) /\ req[1].op = "deleteUserAddress"
    /\ req[1].res.error = DeleteMainError
    /\ \E d \in OwnRecord(req[1]) : IsDefaultOf(d, req[1].p.user)

\* A request on slot s was answered in this step from position pc, and not
\* with a store error.
AnswersFrom(s, pc) ==
    /\ req[s].pc = pc /\ req'[s].pc = "done" /\ req'[s].res # DbError

\* C12: promoteToDefault of an owned, non-wildcard, non-default record B
\* makes B the default; deleteUserAddress of an owned record that is not the
\* default (the previous default A) then removes it and leaves the default
\* alone; deleteUserAddress of the default (B) is refused.  Each step: unless
\* the store fails.
C12_PromoteThenDeleteOld ==
    [][\A s \in Slots :
        LET r == req[s] IN
        /\ (r.pc = "pd_findAddress" /\ req'[s] # Respond(r, DbError)
                /\ \E d \in OwnRecord(r) :
                    ~IsDefaultOf(d, r.p.user) /\ IndexOf(d.address, "*") < 0)
            => req'[s].pc = "pd_update"
        /\ AnswersFrom(s, "pd_update")
            => /\ req'[s].res.success
               /\ \E d \in OwnRecord(r) : users' = [users EXCEPT ![r.p.user] = Some(d.address)]
               /\ addresses' = addresses
        /\ (r.pc = "du_findAddress" /\ req'[s] # Respond(r, DbError)
                /\ \E d \in OwnRecord(r) : ~IsDefaultOf(d, r.p.user))
            => req'[s].pc = "du_delete"
        /\ AnswersFrom(s, "du_delete")
            => /\ req'[s].res.success
               /\ OwnRecord(r) # {}
               /\ addresses' = addresses \ OwnRecord(r)
               /\ users' = users
        /\ (r.pc = "du_findAddress"
                /\ \E d \in OwnRecord(r) : IsDefaultOf(d, r.p.user))
            => /\ req'[s].pc = "done" /\ ~req'[s].res.success
               /\ addresses' = addresses /\ users' = users
    ]_vars

\* The first record was deleted while the second, created later, is the
\* default.
C12_Witness ==
    /\ Answered(req[1]) /\ req[1].op = "deleteUserAddress"
    /\ req[1].p.id = 1 /\ req[1].res.success /\ req[1].from = "du_delete"
    /\ \E d \in addresses :
        /\ addresses = {d}
        /\ d.id = 2 /\ d.user = Some(req[1].p.user)
        /\ IsDefaultOf(d, req[1].p.user)

\* The default address of every user that has one is the address of a
\* User Address the user owns.
DefaultIsOwnRecord ==
    \A u \in Users :
        users[u] # None => \E d \in addresses : d.user = Some(u) /\ IsDefaultOf(d, u)

\* C13: with requests one at a time, a user's default, once set, is never
\* unset and always is the address of a stored User Address of that user;
\* promoteToDefault with main = false is refused before any store call.
C13_DefaultStaysOwnRecord ==
    [][/\ DefaultIsOwnRecord'
       /\ \A u \in Users : users[u] # None => users'[u] # None
       /\ \A s \in Slots :
            (req'[s].op = "promoteToDefault" /\ ~req'[s].p.main)
            => /\ req'[s].pc = "done" /\ req'[s].from = "start"
               /\ ~req'[s].res.success /\ ~req'[s].wrote
    ]_vars

\* A promote with main = false was refused while the user has a default.
C13_Witness ==
    /\ Answered(req[1]) /\ req[1].op = "promoteToDefault" /\ ~req[1].p.main
    /\ req[1].res.error = "Cannot unset main status"
    /\ \E d \in OwnRecord(req[1]) : IsDefaultOf(d, req[1].p.user)
    /\ Cardinality(addresses) = 2

\* C14: when promoteToDefault and deleteUserAddress of one user interleave,
\* the user's default never names a record that has been removed.
C14_DefaultNeverDeleted ==
    \A s \in Slots : \A t \in Slots \ {s} :
        (/\ req[s].op = "deleteUserAddress" /\ Answered(req[s]) /\ req[s].res.success
         /\ req[t].op = "promoteToDefault" /\ Answered(req[t]) /\ req[t].res.success
         /\ req[s].p.user = req[t].p.user)
        => \E d \in addresses : IsDefaultOf(d, req[t].p.user)

\* The address rows answered by listUserAddresses that are flagged main.
MainRows(results) == {i \in 1..Len(results) : results[i].main}

\* C15: each user has at most one stored record whose address equals the
\* user's default, and a listing reports at most one row as main.
C15_AtMostOneMain ==
    /\ \A u \in Users :
        Cardinality({d \in addresses :
            d.user = Some(u) /\ IsMainAddress(d.address, users[u])}) <= 1
    /\ \A s \in Slots :
        (req[s].op = "listUserAddresses" /\ Answered(req[s]))
        => Cardinality(MainRows(req[s].res.results)) <= 1

\* A listing of two addresses, sorted by key, reports the second as main.
C15_Witness ==
    /\ Answered(req[1]) /\ req[1].op = "listUserAddresses"
    /\ Len(req[1].res.results) = 2
    /\ req[1].res.results[1].address = Addr_a_b_x
    /\ MainRows(req[1].res.results) = {2}

\* The step answers a createUserAddress on slot s with success.
CreateSucceeds(s) ==
    /\ req[s].op = "createUserAddress" /\ req[s].pc \in {"cu_insert", "cu_setDefault"}
    /\ req'[s].pc = "done" /\ req'[s].res.success

C17_InsertKeptWhenSetDefaultFails ==
    [][\A s \in Slots :
        req[s].pc = "cu_setDefault"
        => /\ req'[s].pc = "done"
           /\ req'[s].res.success /\ req'[s].res.error = ""
           /\ req'[s].res.id = req[s].insertId
           /\ addresses' = addresses
           /\ \E d \in addresses' :
                /\ d.id = req'[s].res.id
                /\ d.user = Some(req[s].p.user)
                /\ d.address = NormalizeAddress(req[s].p.address)
    ]_vars

\* A create with makeDefault answered success, its record is stored, and
\* the owner's default is still the earlier address: the update failed.
C17_Witness ==
    /\ Answered(req[1]) /\ req[1].op = "createUserAddress"
    /\ req[1].from = "cu_setDefault" /\ req[1].p.main
    /\ req[1].res.success /\ req[1].res.id = 2
    /\ \E d \in addresses : d.id = 2 /\ d.user = Some(req[1].p.user)
    /\ \E d \in addresses : d.id = 1 /\ IsDefaultOf(d, req[1].p.user)

\* The id names no record, a record of another user, or a Forwarded Address.
NotOwnUserAddress(r) ==
    \A d \in FindById(r.p.id) : d.user # Some(r.p.user)

\* C18: promoteToDefault (main set, existing user) on an id that names no
\* record, another user's record or a Forwarded Address never reaches the
\* update, writes nothing, and the address lookup answers AddressNotFound.
C18_PromoteNotOwnedNotFound ==
    \A s \in Slots :
        LET r == req[s] IN
        (r.op = "promoteToDefault" /\ r.p.main /\ r.p.user \in Users
            /\ NotOwnUserAddress(r))
        => /\ r.pc # "pd_update"
           /\ ~r.wrote
           /\ Answered(r) => ~r.res.success
           /\ (Answered(r) /\ r.from = "pd_findAddress" /\ r.res # DbError)
                => r.res.code = "AddressNotFound"

\* A promote of a Forwarded Address was answered AddressNotFound.
C18_Witness ==
    /\ Answered(req[1]) /\ req[1].op = "promoteToDefault"
    /\ req[1].res.code = "AddressNotFound"
    /\ \E d \in FindById(req[1].p.id) : IsForwardedAddress(d)
    /\ \E d \in addresses : IsUserAddress(d) /\ d.user # Some(req[1].p.user)

\* C19: promoteToDefault on the record that already is the owner's default
\* is answered with success and no error.
C19_PromoteDefaultIsSuccess ==
    \A s \in Slots :
        LET r == req[s] IN
        (r.op = "promoteToDefault" /\ r.p.main
            /\ Answered(r) /\ r.from = "pd_findAddress" /\ r.res # DbError
            /\ \E d \in OwnRecord(r) : IsDefaultOf(d, r.p.user))
        => r.res.success /\ r.res.error = ""

\* C20: deleteUserAddress (existing user) on an id that names no record,
\* another user's record or a Forwarded Address deletes nothing and the
\* address lookup answers AddressNotFound.
C20_DeleteNotOwnedNotFound ==
    \A s \in Slots :
        LET r == req[s] IN
        (r.op = "deleteUserAddress" /\ r.p.user \in Users /\ NotOwnUserAddress(r))
        => /\ r.pc # "du_delete"
           /\ ~r.wrote
           /\ (Over(r) /\ r.from = "du_findAddress" /\ r.res # DbError)
                => Answered(r) /\ r.res.code = "AddressNotFound"

\* The id names no record or a User Address.
NotForwardedAddress(r) ==
    \A d \in FindById(r.p.id) : d.targets = None \/ d.user # None

\* C21: the address lookup of updateForwardedAddress, deleteForwardedAddress
\* and getForwardingStatus on an id that names no record or a User Address
\* ends the request: it is answered AddressNotFound (or the store's error),
\* nothing has been written and the directory is unchanged.
C21_ForwardedOpsNotFound ==
    [][\A s \in Slots :
        LET r == req[s] IN
        (/\ r.pc \in {"uf_findAddress", "df_findAddress", "fs_findAddress"}
         /\ NotForwardedAddress(r)
         /\ req'[s] # r)
        => /\ req'[s].pc = "done"
           /\ ~req'[s].res.success /\ ~req'[s].wrote
           /\ req'[s].res # DbError => req'[s].res.code = "AddressNotFound"
           /\ addresses' = addresses /\ users' = users
    ]_vars

\* A deleteForwardedAddress of a User Address was answered AddressNotFound
\* and the record is still stored.
C21_Witness ==
    /\ Answered(req[1]) /\ req[1].op = "deleteForwardedAddress"
    /\ req[1].res.code = "AddressNotFound"
    /\ \E d \in FindById(req[1].p.id) : IsUserAddress(d)

\* The errors the handlers answer for an address or a target they refuse.
ValidationErrors ==
    {"invalid", "Address can not contain +", "Address can not contain *",
     "Invalid wildcard address, use \"*@domain\" or \"user@*\"",
     "Main address can not contain *", "Can not set wildcard address as default",
     "Can not forward to self", "Unknown target type"}

OwnerOfKey(key) ==
    LET owners == {d.user : d \in {a \in addresses :
                        IsUserAddress(a) /\ CanonicalKey(a.address) = key}}
    IN  IF owners = {} THEN None ELSE CHOOSE u \in owners : TRUE

\* C23: every stored target carries a user exactly when it is a mail target
\* whose canonical key is that of a stored User Address, and then that
\* record's owner.
C23_TargetOwnerCurrent ==
    \A d \in addresses :
        IsForwardedAddress(d) =>
            \A i \in 1..Len(d.targets[1]) :
                LET target == d.targets[1][i] IN
                target.user =
                    IF target.type = "mail"
                    THEN OwnerOfKey(CanonicalKey(NormalizeAddress(target.value)))
                    ELSE None

\* The classified form of a patch's target list: kind and original string.
KindAndValue(targets) ==
    [i \in 1..Len(targets) |-> [type |-> targets[i].type, value |-> targets[i].value]]

\* C24: a successful updateForwardedAddress with a target list stores
\* exactly the patch's targets, classified, in the patch's order and with
\* the strings as given; without a target list the stored list is unchanged.
C24_TargetsReplacedWholesale ==
    [][\A s \in Slots :
        LET r == req[s] IN
        (AnswersFrom(s, "uf_update") /\ req'[s].res.success)
        => \E old \in FindById(r.p.id) : \E new \in addresses' :
            /\ new.id = old.id
            /\ addresses' = (addresses \ {old}) \cup {new}
            /\ IF r.p.targets = None
               THEN new.targets = old.targets
               ELSE KindAndValue(new.targets[1]) =
                        [i \in 1..Len(r.p.targets[1]) |->
                            [type |-> TargetType(r.p.targets[1][i]),
                             value |-> r.p.targets[1][i]]]
    ]_vars

\* The two targets "smtp:h@x", "c@x.y" replaced the stored single target.
C24_Witness ==
    /\ Answered(req[1]) /\ req[1].op = "updateForwardedAddress"
    /\ req[1].res.success
    /\ req[1].p.targets = Some(<<Target_smtp, Addr_c_x_y>>)
    /\ \E d \in FindById(req[1].p.id) :
        /\ Len(d.targets[1]) = 2
        /\ d.targets[1][1].type = "relay" /\ d.targets[1][1].value = Target_smtp
        /\ d.targets[1][2].type = "mail" /\ d.targets[1][2].value = Addr_c_x_y

\* The record a create wrote in this step, or the new state of the record
\* an update wrote in this step.
Written(s) ==
    IF req[s].op = "createForwardedAddress"
    THEN addresses' \ addresses
    ELSE {d \in addresses' : d.id = req[s].p.id}

\* The write of a create or an update of a forwarded address that carries
\* an autoreply object succeeds in this step.
WritesAutoreply(s) ==
    /\ \/ req[s].op = "createForwardedAddress" /\ req[s].pc = "cf_insert"
       \/ req[s].op = "updateForwardedAddress" /\ req[s].pc = "uf_update"
    /\ req'[s].pc = "done" /\ req'[s].res.success
    /\ req[s].p.autoreply # None

\* C25: when a create or an update sets text to '' and does not set html,
\* both are stored as ''; the same with html and text exchanged; a part set
\* to a non-empty value in the request keeps that value.
C25_TextHtmlCoupled ==
    [][\A s \in Slots :
        WritesAutoreply(s) =>
            LET raw == req[s].p.autoreply[1] IN
            /\ Written(s) # {}
            /\ \A d \in Written(s) :
                LET stored == d.autoreply[1] IN
                /\ (raw.text = Some("") /\ raw.html = None)
                    => stored.text = Some("") /\ stored.html = Some("")
                /\ (raw.html = Some("") /\ raw.text = None)
                    => stored.text = Some("") /\ stored.html = Some("")
                /\ (raw.text = Some("") /\ ~Falsy(raw.html))
                    => stored.text = Some("") /\ stored.html = raw.html
                /\ (raw.html = Some("") /\ ~Falsy(raw.text))
                    => stored.html = Some("") /\ stored.text = raw.text
    ]_vars

\* A patch of text = '' alone was stored: text and html are both ''.
C25_Witness ==
    /\ Answered(req[1]) /\ req[1].op = "updateForwardedAddress"
    /\ req[1].res.success /\ req[1].p.autoreply = Some(Reply_text_empty)
    /\ \E d \in FindById(req[1].p.id) :
        /\ d.autoreply[1].text = Some("") /\ d.autoreply[1].html = Some("")
        /\ d.autoreply[1].enabled = Some(TRUE)

\* Key f is not in the autoreply object of the request.
AbsentKey(r, f) == r.p.autoreply = None \/ r.p.autoreply[1][f] = None

\* Key f is cleared because the other of text and html is set to ''.
CoupledKey(r, f) ==
    /\ r.p.autoreply # None
    /\ \/ f = "html" /\ r.p.autoreply[1].text = Some("")
       \/ f = "text" /\ r.p.autoreply[1].html = Some("")

\* C26: a successful updateForwardedAddress leaves the target list, the
\* quota and every autoreply field that is not in the patch as stored,
\* except text or html cleared together with the other.
C26_UpdateOnlyPatchedFields ==
    [][\A s \in Slots :
        LET r == req[s] IN
        (AnswersFrom(s, "uf_update") /\ req'[s].res.success)
        => \E old \in FindById(r.p.id) : \E new \in addresses' :
            /\ new.id = old.id
            /\ addresses' = (addresses \ {old}) \cup {new}
            /\ r.p.targets = None => new.targets = old.targets
            /\ r.p.forwards = None => new.forwards = old.forwards
            /\ \A f \in DOMAIN NoAutoreply :
                (AbsentKey(r, f) /\ ~CoupledKey(r, f))
                => new.autoreply[1][f] = old.autoreply[1][f]
    ]_vars

\* A patch of subject alone was stored on a record with text and html.
C26_Witness ==
    /\ Answered(req[1]) /\ req[1].op = "updateForwardedAddress"
    /\ req[1].res.success /\ req[1].p.autoreply = Some(Reply_subject)
    /\ req[1].p.targets = None /\ req[1].p.forwards = None
    /\ \E d \in FindById(req[1].p.id) :
        /\ d.autoreply[1].subject = Some("s")
        /\ d.autoreply[1].text = Some("t") /\ d.autoreply[1].html = Some("h")
        /\ d.forwards = Some(5)

\* C27: after a successful updateForwardedAddress whose patch holds a quota
\* q, the stored quota is q, also for q = 0.
C27_QuotaStored ==
    [][\A s \in Slots :
        LET r == req[s] IN
        (AnswersFrom(s, "uf_update") /\ req'[s].res.success /\ r.p.forwards # None)
        => \A d \in FindById(r.p.id)' : d.forwards = r.p.forwards
    ]_vars

\* A request on slot s is answered in this step by a read of a forwarded
\* address.
ReadsForwarded(s) ==
    /\ req[s].pc \in {"fs_tracker", "rs_tracker"} /\ req'[s].pc = "done"

\* C28: createForwardedAddress without an autoreply object stores
\* {enabled: false}, and getForwardingStatus and resolve of a record that
\* stores {enabled: false} report exactly that.
C28_NoAutoreplyStoredDisabled ==
    [][\A s \in Slots :
        LET r == req[s] IN
        /\ (r.pc = "cf_insert" /\ req'[s].pc = "done" /\ req'[s].res.success
                /\ r.p.autoreply = None)
            => /\ Written(s) # {}
               /\ \A d \in Written(s) : d.autoreply = Some(AutoreplyDisabled)
        /\ (ReadsForwarded(s) /\ r.addressData[1].autoreply = Some(AutoreplyDisabled))
            => /\ req'[s].res.success
               /\ req'[s].res.body.autoreply = Some(AutoreplyDisabled)
    ]_vars

\* getForwardingStatus reported {enabled: false} for a record created
\* without an autoreply object.
C28_Witness ==
    /\ Answered(req[1]) /\ req[1].op = "getForwardingStatus"
    /\ req[1].res.success
    /\ req[1].res.body.autoreply = Some(AutoreplyDisabled)
    /\ \E d \in FindById(req[1].p.id) : d.autoreply = Some(AutoreplyDisabled)

\* C29: getForwardingStatus answered after the tracker returned an error
\* reports success, used = 0 and no numeric ttl.
C29_TrackerErrorUnboundedTtl ==
    \A s \in Slots :
        LET r == req[s] IN
        (r.op = "getForwardingStatus" /\ Answered(r)
            /\ r.tracker # None /\ r.tracker[1].err)
        => /\ r.res.success
           /\ r.res.body.used = 0
           /\ r.res.body.ttl = None

\* C30: getForwardingStatus answered after the tracker found no counter
\* reports success, used = 0 and no numeric ttl.
C30_NoCounterUnboundedTtl ==
    \A s \in Slots :
        LET r == req[s] IN
        (r.op = "getForwardingStatus" /\ Answered(r)
            /\ r.tracker # None /\ ~r.tracker[1].err /\ r.tracker[1].count = None)
        => /\ r.res.success /\ r.res.error = ""
           /\ r.res.body.used = 0
           /\ r.res.body.ttl = None

\* The status of a stored forwarded address was answered with no counter
\* in the tracker.
C30_Witness ==
    /\ Answered(req[1]) /\ req[1].op = "getForwardingStatus"
    /\ req[1].tracker = Some([err |-> FALSE, count |-> None, ttl |-> -2])
    /\ req[1].res.success /\ req[1].res.body.ttl = None
    /\ \E d \in FindById(req[1].p.id) : IsForwardedAddress(d)

(***************************************************************************)
(* Limits and lookups of the read operations.                              *)
(***************************************************************************)
\* The request on slot s was answered with the body of a Forwarded Address.
AnsweredForwarded(s) ==
    /\ req[s].op \in {"getForwardingStatus", "resolve"}
    /\ Answered(req[s]) /\ req[s].tracker # None

\* C31: the allowed count answered by getForwardingStatus, and by resolve
\* for a Forwarded Address, is the quota of the record when that quota is
\* not zero and the platform default otherwise; the used count is the
\* counter the tracker answered, 0 when it has none.
C31_AllowedAndUsed ==
    \A s \in Slots :
        AnsweredForwarded(s)
        => LET r == req[s]
               reply == r.tracker[1]
           IN  /\ r.res.success
               /\ \E d \in addresses :
                    /\ d.id = r.res.id /\ IsForwardedAddress(d) /\ ~IsUserAddress(d)
                    /\ r.res.body.allowed =
                          IF d.forwards \notin {None, Some(0)} THEN d.forwards[1]
                          ELSE MAX_FORWARDS
               /\ ~reply.err
                    => r.res.body.used = IF reply.count = None THEN 0 ELSE reply.count[1]

\* A record with quota 5 and a counter of 3 were reported by status.
C31_Witness ==
    /\ AnsweredForwarded(1) /\ req[1].op = "getForwardingStatus"
    /\ req[1].res.body.allowed = 5 /\ req[1].res.body.used = 3
    /\ \E d \in addresses : d.id = req[1].res.id /\ d.forwards = Some(5)

\* The records a resolve parameter names: by id for an id, by the
\* canonical key of the case-folded address for a raw address.
NamedBy(param) ==
    IF IndexOf(param, "@") >= 0
    THEN {d \in addresses : CanonicalKey(d.address) = CanonicalKey(NormalizeAddress(param))}
    ELSE {d \in addresses : HexId(d.id) = param}

\* C32: a resolve that was answered, other than with a store error or a
\* rejected parameter, answers AddressNotFound exactly when no record is
\* named by its parameter; otherwise it answers the named record, with the
\* owner and no targets when the record has an owner, with the values of
\* its targets and no owner when it has none.
C32_ResolveByKeyOrId ==
    \A s \in Slots :
        LET r == req[s]
            named == NamedBy(r.p.address)
        IN  (r.op = "resolve" /\ Answered(r) /\ r.res # DbError
                /\ r.res.code # "InputValidationError")
            => /\ (r.res.code = "AddressNotFound") <=> (named = {})
               /\ named # {}
                    => \E d \in named :
                        /\ r.res.success /\ r.res.id = d.id
                        /\ r.res.body.address = d.address
                        /\ r.res.body.user = d.user
                        /\ IsUserAddress(d) => r.res.body.targets = None
                        /\ ~IsUserAddress(d)
                             => /\ r.res.body.targets # None
                                /\ Len(r.res.body.targets[1]) = Len(d.targets[1])
                                /\ \A i \in 1..Len(d.targets[1]) :
                                     r.res.body.targets[1][i] = d.targets[1][i].value

\* The dotted spelling resolved to the User Address stored undotted.
C32_Witness ==
    /\ req[1].op = "resolve" /\ Answered(req[1])
    /\ req[1].p.address = Addr_a_b_x
    /\ req[1].res.success /\ req[1].res.body.user = Some("u1")
    /\ req[1].res.body.address = Addr_ab_x

\* C33: resolve calls nothing but the directory store: it is never waiting
\* for the forward counters and never answers from their reply.
C33_ResolveStoreOnly ==
    \A s \in Slots :
        req[s].op = "resolve" => req[s].pc # "rs_tracker" /\ req[s].tracker = None

(***************************************************************************)
(* What a stored record can and cannot become.                             *)
(***************************************************************************)
\* C34: no step changes the id, address, canonical key, owner or creation
\* time of a stored record, and no step changes a User Address at all: a
\* record that is still stored after a step differs at most in its
\* targets, quota and autoreply, and only if it has no owner.
C34_IdentityFieldsFixed ==
    [][\A d \in addresses : \A e \in addresses' :
        e.id = d.id
        => /\ e.address = d.address
           /\ e.addrview = d.addrview
           /\ CanonicalKey(e.address) = CanonicalKey(d.address)
           /\ e.user = d.user
           /\ e.created = d.created
           /\ IsUserAddress(d) => e = d
    ]_vars

\* An update rewrote the targets of a Forwarded Address while a User
\* Address was stored next to it.
C34_Witness ==
    /\ req[1].op = "updateForwardedAddress" /\ Answered(req[1])
    /\ req[1].wrote /\ req[1].res.success
    /\ req[1].p.targets = Some(<<Target_smtp, Addr_c_x_y>>)
    /\ \E d \in addresses :
        /\ d.id = req[1].p.id /\ ~IsUserAddress(d) /\ d.created = d.id
        /\ KindAndValue(d.targets[1]) = <<[type |-> "relay", value |-> Target_smtp], [type |-> "mail", value |-> Addr_c_x_y]>>
    /\ \E d \in addresses : IsUserAddress(d)

\* C35: every stored record without owner has a target list, and the list
\* is not empty.
C35_TargetsNonEmpty ==
    \A d \in addresses :
        ~IsUserAddress(d) => d.targets # None /\ Len(d.targets[1]) >= 1

\* A createForwardedAddress without targets is over and stored nothing.
C35_Witness ==
    /\ req[1].op = "createForwardedAddress" /\ Over(req[1])
    /\ req[1].p.targets = None /\ req[1].p.address = Addr_ab_x
    /\ ~req[1].wrote /\ addresses = {}

\* The first n characters of a string, case-folded.
LowerPrefix(t, n) == [i \in 1..Min(n, Len(t)) |-> ToLower(t[i])]

\* The kind the classification rules give a target string, in rule order.
KindOf(t) ==
    IF LowerPrefix(t, 5) = <<"s", "m", "t", "p", ":">>
          \/ LowerPrefix(t, 6) = <<"s", "m", "t", "p", "s", ":">> THEN "relay"
    ELSE IF LowerPrefix(t, 5) = <<"h", "t", "t", "p", ":">>
          \/ LowerPrefix(t, 6) = <<"h", "t", "t", "p", "s", ":">> THEN "http"
    ELSE IF \E i \in 1..Len(t) : t[i] = "@" THEN "mail"
    ELSE "invalid"

\* C36: a create or update whose target list holds a string of no kind
\* writes nothing and, once answered, carries a validation error; the step
\* in which a create or update with targets writes stores one target per
\* string of the request, in order, each with the kind the rules give it
\* and the string itself as value.
C36_ClassificationOrdered ==
    [][\A s \in Slots :
        LET r == req[s]
            given == r.p.targets[1]
            stored == {d \in addresses' :
                        d.id = IF r.op = "updateForwardedAddress"
                               THEN r.p.id ELSE req'[s].res.id}
        IN  (r.op \in {"createForwardedAddress", "updateForwardedAddress"}
                /\ r.p.targets # None)
            => /\ (\E i \in 1..Len(given) : KindOf(given[i]) = "invalid")
                    => /\ ~r.wrote
                       /\ Answered(r) => r.res.code = "InputValidationError"
                       /\ addresses' = addresses
               /\ (~r.wrote /\ req'[s].op = r.op /\ req'[s].wrote)
                    => /\ stored # {}
                       /\ \A d \in stored :
                            KindAndValue(d.targets[1]) =
                                [i \in 1..Len(given) |-> [type |-> KindOf(given[i]), value |-> given[i]]]
    ]_vars

\* A create stored a relay and an http target that contain '@', and a mail
\* target, in the order of the request.
C36_Witness ==
    /\ req[1].op = "createForwardedAddress" /\ Answered(req[1]) /\ req[1].wrote
    /\ \E d \in addresses :
        /\ d.id = req[1].res.id
        /\ KindAndValue(d.targets[1]) =
             <<[type |-> "relay", value |-> Target_smtp], [type |-> "http", value |-> Target_http_at], [type |-> "mail", value |-> Addr_c_x_y]>>

(***************************************************************************)
(* The owner lookup of create and update.                                  *)
(***************************************************************************)
LookupPcs == {"cf_resolveUsers", "uf_resolveUsers"}
WritePcs == {"cf_insert", "uf_update"}

\* C37: a create or update of a Forwarded Address queries the store for
\* the owners of its mail targets at most once, and not at all when it has
\* no mail target; that query leaves every mail target with the owner of
\* the User Address stored under the target's canonical key, and every
\* other target, and every mail target without such a record, with no
\* owner; the write that follows stores the targets as the query left them.
C37_BatchedOwnerLookup ==
    [][\A s \in Slots :
        LET r == req[s]
            q == req'[s]
        IN  /\ q.pc \in LookupPcs
                => /\ r.pc \in {"cf_findAddress", "uf_findAddress"}
                   /\ \E i \in 1..Len(q.targets[1]) : q.targets[1][i].type = "mail"
            /\ r.pc \in LookupPcs => q.pc \in WritePcs \cup {"done"}
            /\ (r.pc \in {"cf_findAddress", "uf_findAddress"} /\ q.pc \in WritePcs
                    /\ q.targets # None)
                => \A i \in 1..Len(q.targets[1]) :
                     q.targets[1][i].type # "mail" /\ q.targets[1][i].user = None
            /\ (r.pc \in LookupPcs /\ q.pc \in WritePcs)
                => /\ KindAndValue(q.targets[1]) = KindAndValue(r.targets[1])
                   /\ \A i \in 1..Len(q.targets[1]) :
                        LET target == q.targets[1][i] IN
                        target.user =
                            IF target.type = "mail"
                            THEN OwnerOfKey(CanonicalKey(NormalizeAddress(target.value)))
                            ELSE None
            /\ (r.pc \in WritePcs /\ r.targets # None /\ q.wrote)
                => \E d \in addresses' :
                    /\ d.id = IF r.op = "updateForwardedAddress" THEN r.p.id ELSE q.res.id
                    /\ d.targets = r.targets
    ]_vars

\* A create stored the mail target "a.b@x" with the owner of the User
\* Address stored as "ab@x".
C37_Witness ==
    /\ req[1].op = "createForwardedAddress" /\ Answered(req[1]) /\ req[1].wrote
    /\ req[1].p.targets = Some(<<Addr_a_b_x>>)
    /\ \E d \in addresses :
        /\ d.id = req[1].res.id
        /\ d.targets[1][1].user = Some("u1")
    /\ \E d \in addresses : d.address = Addr_ab_x /\ d.user = Some("u1")

(***************************************************************************)
(* Requests in flight together, and the end of a request.                  *)
(***************************************************************************)
\* C38: the step in which a createUserAddress without makeDefault writes
\* the owner's default leaves the default as it is when the owner has one
\* at that moment.
C38_NoDefaultCheckAtomic ==
    [][\A s \in Slots :
        LET r == req[s] IN
        (r.op = "createUserAddress" /\ r.pc = "cu_setDefault" /\ ~r.p.main
            /\ r.p.user \in Users /\ users[r.p.user] # None)
        => users'[r.p.user] = users[r.p.user]
    ]_vars

\* C39: a request that is over was answered: no handler ends without a
\* response.
C39_AlwaysAnswered ==
    \A s \in Slots : Over(req[s]) => Answered(req[s]) /\ req[s].res.sent

\* C40: the write of an updateForwardedAddress whose record is no longer
\* stored adds no record, leaves the id without a record and is not
\* answered with success.
C40_UpdateNeverResurrects ==
    [][\A s \in Slots :
        LET r == req[s] IN
        (r.pc = "uf_update" /\ FindById(r.p.id) = {} /\ req'[s] # r)
        => /\ addresses' = addresses
           /\ \A d \in addresses' : d.id # r.p.id
           /\ Answered(req'[s]) /\ ~req'[s].res.success /\ ~req'[s].wrote
    ]_vars

\* An update passed its lookup, the record was deleted by the request on
\* the other slot, and the update was answered {success: false}.
C40_Witness ==
    \E s \in Slots :
        /\ req[s].op = "updateForwardedAddress" /\ Answered(req[s])
        /\ req[s].from = "uf_update" /\ req[s].res # DbError
        /\ ~req[s].res.success /\ ~req[s].wrote
        /\ FindById(req[s].p.id) = {}
        /\ \E o \in Slots \ {s} :
            /\ req[o].op = "deleteForwardedAddress" /\ req[o].wrote
            /\ req[o].p.id = req[s].p.id

====
